---- MODULE Spec2Model ----
(***************************************************************************)
(* The faithful_registration API as state machines over the persisted      *)
(* tables, the files directory and the cache.                              *)
(*   Spec, SpecMandatory, SpecScenario: the bulk spreadsheet imports       *)
(*     (bulk_register_mosques, bulk_register_households,                   *)
(*     bulk_upload_faithfuls, bulk_upload_imams), stepped row by row (one  *)
(*     step per iteration of the row loop), over tables register_mosque    *)
(*     may have populated before;                                          *)
(*   SpecImam: register_imam, update_imam, reassign_imam, delete_imam,     *)
(*     get_imams_by_mosque and delete_faithful;                            *)
(*   SpecFile: the three save_base64_file helpers;                         *)
(*   SpecOtp, SpecOtpIssued: send_otp and verify_otp against the cache and *)
(*     the clock;                                                          *)
(*   SpecFaithful: register_faithful and update_faithful;                  *)
(*   SpecMosque: register_mosque, update_mosque, delete_mosque and         *)
(*     bulk_register_mosques on one table.                                 *)
(* In these, one request is in progress at a time.  Two requests are in    *)
(* progress at once in                                                     *)
(*   SpecOtpRace: two verify_otp requests;                                 *)
(*   SpecBulkRace: two bulk imports of the same endpoint;                  *)
(*   SpecHousehold: a bulk import of households and, between its steps,    *)
(*     create_household, update_household and delete_household.            *)
(***************************************************************************)
EXTENDS Integers, Sequences, FiniteSets, TLC

VARIABLES
    upload,       \* the file the client holds: [endpoint, readable, cols, sheet, rows]
    attached,     \* whether the current request carries the file
    mosques,      \* table "Mosque": sequence of records, in insertion order
    households,   \* table "Household"
    household_ids, \* the names of the Household documents: [names, issued]
    mosque_ids,   \* the names of the Mosque documents: [names, issued]
    profiles,     \* table "Faithful Profile"
    users,        \* table "User": set of user names (the e-mail is the name)
    imams,        \* table "Imam"
    files,        \* table "File": the failed-rows reports and the uploads
    pc,           \* "idle" | "rows" (inside the row loop) | "done" (responded)
    idx,          \* 1-based position of the next row of the loop
    loc,          \* the handler's local counters and lists
    response,     \* the last response returned
    outcomes,     \* history: per processed row, which counter was incremented
    raised,       \* history: per processed row, the exception its try block raised
    before,       \* history: the tables as they were when the call began
    prevCreated,  \* history: rows created by the previous import
    ncalls,       \* number of requests made
    assignment_logs, \* table "Imam Assignment Log"
    series,       \* the naming series of "Imam": how many names were issued
    disk,         \* the files written to the files directories
    cache,        \* frappe.cache(): per key, the value and when it expires
    clock,        \* the time, in seconds
    nticks,       \* number of times the clock was advanced
    outbox,       \* the e-mails frappe.sendmail has sent
    issued,       \* history: per e-mail, the last send_otp that passed the cooldown
    imam_columns, \* the columns of table "Imam" (fixed by the doctype)
    call,         \* history: the request served last, as [op, ...]
    verified,     \* history: the e-mails whose stored OTP a verify_otp has accepted
    procs         \* the requests in progress at once: per request, its locals

\* the state the bulk imports do not touch
others == << assignment_logs, series, disk, cache, clock, nticks, outbox, issued,
             imam_columns, call, verified, procs >>

vars == << upload, attached, mosques, mosque_ids, households, household_ids,
           profiles, users, imams, files,
           pc, idx, loc, response, outcomes, raised, before, prevCreated, ncalls,
           assignment_logs, series, disk, cache, clock, nticks, outbox, issued,
           imam_columns, call, verified, procs >>

(***************************************************************************)
(* Bounds of the model.                                                    *)
(***************************************************************************)
MaxRows == 2
MaxCalls == 2
MaxTicks == 4

(***************************************************************************)
(* Python / pandas values.  A cell of a sheet is a string, "" when the     *)
(* cell is empty; a cell of the DataFrame is a string or NaN (an empty     *)
(* cell, as pandas.read_excel yields it); None is what dict.get /          *)
(* Series.get yield for an absent key.                                     *)
(***************************************************************************)
None == "<None>"
NaN == "<NaN>"

\* str(v)
Str(v) == IF v = NaN THEN "nan" ELSE IF v = None THEN "None" ELSE v

\* s.strip(), on the strings of the model
Strip(s) ==
    CASE s = "  " -> ""
      [] s = " A" -> "A"
      [] s = " A@x" -> "A@x"
      [] s = " 100000 " -> "100000"
      [] OTHER -> s

\* s.lower(), on the strings of the model
Lower(s) ==
    CASE s = "A@x" -> "a@x"
      [] s = " A@x" -> " a@x"
      [] OTHER -> s

\* bool(v): None and "" are falsy, a NaN float is truthy
Truthy(v) == v \notin {None, ""}

\* pd.notna(v)
NotNa(v) == v \notin {None, NaN}

\* hasattr(v, "strip")
IsStr(v) == v \notin {None, NaN}

\* row.get(col) / payload.get(col)
Get(row, col) == IF col \in DOMAIN row THEN row[col] ELSE None

\* row.get(col, default)
GetOr(row, col, default) == IF col \in DOMAIN row THEN row[col] ELSE default

\* frappe.db.exists(doctype, {field: v})
Exists(tbl, field, v) == \E i \in DOMAIN tbl : tbl[i][field] = v

(***************************************************************************)
(* The uploads.                                                            *)
(***************************************************************************)
Endpoints == {"mosque", "household", "faithful", "imam"}

\* an empty cell of a sheet
Empty == ""

\* the cells of a name column: an empty cell, a blank string, a name, the
\* same name with a leading space
NameCells == {Empty, "  ", "A", " A"}

SeqsUpTo(S, n) == UNION {[1..k -> S] : k \in 0..n}

IsEmptyRow(r) == \A c \in DOMAIN r : r[c] = Empty

\* the rows of a sheet without the empty rows that end it
RECURSIVE TrimTrailingEmptyRows(_)
TrimTrailingEmptyRows(sheet) ==
    IF sheet = << >> THEN sheet
    ELSE IF IsEmptyRow(sheet[Len(sheet)])
    THEN TrimTrailingEmptyRows(SubSeq(sheet, 1, Len(sheet) - 1))
    ELSE sheet

\* pd.read_excel on the data rows of a sheet: the empty rows at the end of
\* the sheet are not read, an empty row between two rows is kept, and an
\* empty cell becomes NaN
ReadExcel(sheet) ==
    LET kept == TrimTrailingEmptyRows(sheet)
    IN  [i \in DOMAIN kept |->
            [c \in DOMAIN kept[i] |->
                IF kept[i][c] = Empty THEN NaN ELSE kept[i][c]]]

\* the sheets with header `cols` and at most MaxRows rows drawn from `rowset`
Sheets(cols, rowset) ==
    {[cols |-> cols, sheet |-> rs] : rs \in SeqsUpTo(rowset, MaxRows)}

MosqueSheets ==
    Sheets({"mosque_name"}, {[mosque_name |-> n] : n \in NameCells})
    \cup Sheets({"mosque_name", "contact_email"},
                {[mosque_name |-> n, contact_email |-> m] :
                    n \in {"A", "B"}, m \in {Empty, "e"}})
    \cup Sheets({"mosque_name", "contact_phone"},
                {[mosque_name |-> n, contact_phone |-> m] :
                    n \in {"A", "B"}, m \in {Empty, "p"}})
    \cup Sheets({"contact_email"}, {[contact_email |-> m] : m \in {Empty, "e"}})

HouseholdSheets ==
    Sheets({"household_name"}, {[household_name |-> n] : n \in NameCells})
    \cup Sheets({"address"}, {[address |-> m] : m \in {Empty, "x"}})

FaithfulSheets ==
    Sheets({"email", "full_name"},
           {[email |-> Empty, full_name |-> "F"], [email |-> "a@x", full_name |-> "F"],
            [email |-> " A@x", full_name |-> "F"],
            [email |-> "a@x", full_name |-> Empty]})
    \cup Sheets({"full_name"}, {[full_name |-> m] : m \in {Empty, "F"}})

ImamSheets ==
    Sheets({"faithful", "mosque_assigned", "date_appointed"},
           {[faithful |-> f, mosque_assigned |-> "M1",
             date_appointed |-> "2024-01-01"] : f \in {Empty, "F1", "F2"}})
    \cup Sheets({"faithful"}, {[faithful |-> "F1"]})

SheetsOf(e) ==
    CASE e = "mosque" -> MosqueSheets
      [] e = "household" -> HouseholdSheets
      [] e = "faithful" -> FaithfulSheets
      [] e = "imam" -> ImamSheets

Unreadable(e) ==
    [endpoint |-> e, readable |-> FALSE, cols |-> {}, sheet |-> << >>, rows |-> << >>]

\* the DataFrame read_excel makes of a sheet, next to the sheet
Readable(e, s) ==
    [endpoint |-> e, readable |-> TRUE, cols |-> s.cols, sheet |-> s.sheet,
     rows |-> ReadExcel(s.sheet)]

Uploads ==
    UNION {{Readable(e, s) : s \in SheetsOf(e)} \cup {Unreadable(e)} : e \in Endpoints}

(***************************************************************************)
(* Responses.                                                              *)
(***************************************************************************)
NullData == [kind |-> "null"]

\* an error body: {"data": None, "status": "error", "code": code, "errors": ...}
ErrorResponse(http, code, errors) ==
    [http |-> http, status |-> "error", code |-> code, data |-> NullData,
     errors |-> errors]

NoResponse == [http |-> 0, status |-> "none", code |-> 0, data |-> NullData,
               errors |-> None]

InitLoc == [total |-> 0, created |-> 0, duplicates |-> 0, failed |-> 0,
            failed_records |-> << >>, skipped_duplicates |-> << >>,
            failed_file_url |-> None]

Tables == [mosques |-> mosques, households |-> households, profiles |-> profiles,
           users |-> users, imams |-> imams]

(***************************************************************************)
(* Start of a bulk import: the file, the parse, the header check.  Each    *)
(* operator yields whether the handler goes on to its row loop and, when   *)
(* it does not, the error response it returns.                             *)
(***************************************************************************)
Proceed == [proceed |-> TRUE, response |-> NoResponse]
Abort(r) == [proceed |-> FALSE, response |-> r]

\* bulk_register_mosques: every exception reaches `except Exception` (500)
BeginMosque(hasFile, up) ==
    IF ~hasFile
    THEN Abort(ErrorResponse(500, 500, "No file uploaded. Expecting an Excel file."))
    ELSE IF ~up.readable
    THEN Abort(ErrorResponse(500, 500, "read_excel error"))
    ELSE IF "mosque_name" \notin up.cols
    THEN Abort(ErrorResponse(500, 500, "Missing required column: 'mosque_name'"))
    ELSE Proceed

\* bulk_register_households
BeginHousehold(hasFile, up) ==
    IF ~hasFile
    THEN Abort(ErrorResponse(500, 500, "No Excel file uploaded."))
    ELSE IF ~up.readable
    THEN Abort(ErrorResponse(500, 500, "read_excel error"))
    ELSE IF "household_name" \notin up.cols
    THEN Abort(ErrorResponse(500, 500, "Missing required column: 'household_name'."))
    ELSE Proceed

\* mutant: the handler does not test `if not file`
BeginFaithful_NoFileCheck(hasFile, up) ==
    IF ~up.readable
    THEN Abort(ErrorResponse(500, 500, "read_excel error"))
    ELSE Proceed

\* bulk_upload_faithfuls: required_fields is assigned and never read
BeginFaithful(hasFile, up) ==
    IF ~hasFile
    THEN Abort(ErrorResponse(400, 400, "No file uploaded under 'file' key"))
    ELSE IF ~up.readable
    THEN Abort(ErrorResponse(500, 500, "read_excel error"))
    ELSE Proceed

\* bulk_upload_imams: _error(str(ve), 400, 400) carries no errors object
BeginImam(hasFile, up) ==
    IF ~hasFile
    THEN Abort(ErrorResponse(400, 400, None))
    ELSE IF ~up.readable
    THEN Abort(ErrorResponse(500, 500, "read_excel error"))
    ELSE Proceed

BeginOf(e, hasFile, up) ==
    CASE e = "mosque" -> BeginMosque(hasFile, up)
      [] e = "household" -> BeginHousehold(hasFile, up)
      [] e = "faithful" -> BeginFaithful(hasFile, up)
      [] e = "imam" -> BeginImam(hasFile, up)

CreatedRows(os) == {i \in DOMAIN os : os[i] = "created"}

BulkBegin(att) ==
    /\ pc \in {"idle", "done"}
    /\ ncalls < MaxCalls
    /\ attached' = att
    /\ LET b == BeginOf(upload.endpoint, att, upload)
       IN  /\ pc' = IF b.proceed THEN "rows" ELSE "done"
           /\ response' = b.response
           /\ loc' = IF b.proceed
                     THEN [InitLoc EXCEPT !.total = Len(upload.rows)]
                     ELSE InitLoc
    /\ idx' = 1
    /\ outcomes' = << >>
    /\ raised' = << >>
    /\ before' = Tables
    /\ prevCreated' = CreatedRows(outcomes)
    /\ ncalls' = ncalls + 1
    /\ UNCHANGED << upload, mosques, mosque_ids, households, household_ids, profiles, users, imams, files >>
    /\ UNCHANGED others

(***************************************************************************)
(* One iteration of the row loop.  `res` is what the persistence layer     *)
(* answers to doc.insert: "ok", or the message of the exception it raises. *)
(* The body of the `try` either raises (kind "raise"), or reaches          *)
(* `continue` (kind "duplicate"), or reaches `created += 1`; the `except   *)
(* Exception` clause of the loop turns a raise into a failed row.          *)
(***************************************************************************)
InsertResults == {"ok", "DbError"}

\* created += 1
CountCreated(l) == [l EXCEPT !.created = @ + 1]

\* mutant: the duplicate branch forgets duplicates += 1
CountDuplicate_NoCount(l, entry) ==
    [l EXCEPT !.failed_records = Append(@, entry)]

\* duplicates += 1; failed_records.append({...})
CountDuplicate(l, entry) ==
    [l EXCEPT !.duplicates = @ + 1, !.failed_records = Append(@, entry)]

\* failed += 1; failed_records.append({..., "error": str(e)})
CountFailed(l, entry) ==
    [l EXCEPT !.failed = @ + 1, !.failed_records = Append(@, entry)]

Raise(msg) == [kind |-> "raise", msg |-> msg]

MosqueFields == {"mosque_name", "contact_email", "contact_phone"}

\* doc = frappe.new_doc(...); doc.set(col, value) for every non-NaN cell
NewDoc(fields, row) ==
    [f \in fields |-> IF NotNa(Get(row, f)) THEN Get(row, f) ELSE None]

\* the `try` block of the loop of bulk_register_mosques
MosqueTry(row, tbl, res) ==
    LET mosque_name == Strip(Str(Get(row, "mosque_name")))
        email == IF NotNa(Get(row, "contact_email"))
                 THEN Strip(Str(Get(row, "contact_email"))) ELSE None
        phone == IF NotNa(Get(row, "contact_phone"))
                 THEN Strip(Str(Get(row, "contact_phone"))) ELSE None
        Duplicate(msg) == [kind |-> "duplicate", key |-> mosque_name, msg |-> msg]
    IN  IF mosque_name = "" THEN Raise("Mosque name is required.")
        ELSE IF Exists(tbl, "mosque_name", mosque_name)
        THEN Duplicate("Duplicate mosque name")
        ELSE IF Truthy(email) /\ Exists(tbl, "contact_email", email)
        THEN Duplicate("Duplicate contact email")
        ELSE IF Truthy(phone) /\ Exists(tbl, "contact_phone", phone)
        THEN Duplicate("Duplicate contact phone")
        ELSE IF res # "ok" THEN Raise(res)
        ELSE [kind |-> "created", doc |-> NewDoc(MosqueFields, row)]

\* the names of the documents of a table: names[i] is the name of the
\* i-th document, issued the number of names given out so far
NoIds == [names |-> << >>, issued |-> 0]

\* the name the n-th inserted Mosque gets
MosqueName(n) == "MOSQUE-" \o ToString(n)

\* doc.insert names the new Mosque
IssueMosqueName(ids) ==
    [names |-> Append(ids.names, MosqueName(ids.issued + 1)),
     issued |-> ids.issued + 1]

\* the names of a table no document was deleted from
SeededIds(tbl) ==
    [names |-> [i \in 1..Len(tbl) |-> MosqueName(i)], issued |-> Len(tbl)]

\* the name the n-th inserted Household gets
HouseholdName(n) == "HH-" \o ToString(n)

\* doc.insert names the new document
IssueName(ids) ==
    [names |-> Append(ids.names, HouseholdName(ids.issued + 1)),
     issued |-> ids.issued + 1]

\* the `try` block of the loop of bulk_register_households
HouseholdTry(row, tbl, res) ==
    LET household_name == Strip(Str(Get(row, "household_name")))
    IN  IF household_name = "" THEN Raise("household_name is required.")
        ELSE IF Exists(tbl, "household_name", household_name)
        THEN [kind |-> "duplicate", key |-> household_name,
              msg |-> "Duplicate household_name"]
        ELSE IF res # "ok" THEN Raise(res)
        ELSE [kind |-> "created", doc |-> NewDoc({"household_name"}, row)]

\* mutant: the loop body has no `except`, so a raise leaves the loop
NamedRowBody_NoCatch(t, row, keycol, tbl, l) ==
    CASE t.kind = "raise" ->
            [tbl |-> tbl, outcome |-> "failed", raised |-> t.msg, escaped |-> t.msg,
             loc |-> l]
      [] t.kind = "duplicate" ->
            [tbl |-> tbl, outcome |-> "duplicate", raised |-> None, escaped |-> None,
             loc |-> [l EXCEPT !.duplicates = @ + 1,
                               !.failed_records =
                                   Append(@, [key |-> t.key, error |-> t.msg])]]
      [] t.kind = "created" ->
            [tbl |-> Append(tbl, t.doc), outcome |-> "created", raised |-> None,
             escaped |-> None, loc |-> [l EXCEPT !.created = @ + 1]]

\* one iteration of the loops of bulk_register_mosques and
\* bulk_register_households: t is what the `try` block did, keycol the
\* column the failure entry quotes (row.get(keycol, "Unknown"))
NamedRowBody(t, row, keycol, tbl, l) ==
    CASE t.kind = "raise" ->
            [tbl |-> tbl, outcome |-> "failed", raised |-> t.msg, escaped |-> None,
             loc |-> CountFailed(l, [key |-> GetOr(row, keycol, "Unknown"),
                                     error |-> t.msg])]
      [] t.kind = "duplicate" ->
            [tbl |-> tbl, outcome |-> "duplicate", raised |-> None, escaped |-> None,
             loc |-> CountDuplicate(l, [key |-> t.key, error |-> t.msg])]
      [] t.kind = "created" ->
            [tbl |-> Append(tbl, t.doc), outcome |-> "created", raised |-> None,
             escaped |-> None, loc |-> CountCreated(l)]

MosqueRowBody(row, tbl, res, l) ==
    NamedRowBody(MosqueTry(row, tbl, res), row, "mosque_name", tbl, l)

HouseholdRowBody(row, tbl, res, l) ==
    NamedRowBody(HouseholdTry(row, tbl, res), row, "household_name", tbl, l)

\* which call of a faithful row the persistence layer rejects: the insert of
\* the profile, the insert of the user, or add_roles
Faults == {"none", "profile", "user", "roles"}

\* the `try` block of the loop of bulk_upload_faithfuls: what it raises or
\* reaches, and the tables as it leaves them (a failure of reset_password is
\* swallowed by the inner try and changes nothing)
FaithfulTry(row, profs, usrs, fault) ==
    LET email == Get(row, "email")
        full_name == Get(row, "full_name")
        user_email == Lower(Strip(email))
        doc == [email |-> email, full_name |-> full_name]
        Raised(p, u, msg) ==
            [kind |-> "raise", msg |-> msg, profiles |-> p, users |-> u]
    IN  IF ~Truthy(email) \/ ~Truthy(full_name)
        THEN Raised(profs, usrs, "Missing email or full_name")
        ELSE IF ~IsStr(email)
        THEN Raised(profs, usrs, "'float' object has no attribute 'strip'")
        ELSE IF user_email \in usrs
        THEN [kind |-> "duplicate", key |-> user_email, msg |-> "Duplicate user",
              profiles |-> profs, users |-> usrs]
        ELSE IF fault = "profile" THEN Raised(profs, usrs, "DbError")
        ELSE IF fault = "user" THEN Raised(Append(profs, doc), usrs, "DbError")
        ELSE IF fault = "roles"
        THEN Raised(Append(profs, doc), usrs \cup {user_email}, "DbError")
        ELSE [kind |-> "created", profiles |-> Append(profs, doc),
              users |-> usrs \cup {user_email}]

\* one iteration of the loop of bulk_upload_faithfuls; n is the 1-based row
\* position, so the code's idx + 2 is n + 1
FaithfulRowBody(row, profs, usrs, fault, l, n) ==
    LET t == FaithfulTry(row, profs, usrs, fault)
    IN  CASE t.kind = "raise" ->
                [profiles |-> t.profiles, users |-> t.users, outcome |-> "failed",
                 raised |-> t.msg, escaped |-> None,
                 loc |-> CountFailed(l, [row |-> n + 1, email |-> Get(row, "email"),
                                         full_name |-> Get(row, "full_name"),
                                         error |-> t.msg])]
          [] t.kind = "duplicate" ->
                [profiles |-> t.profiles, users |-> t.users, outcome |-> "duplicate",
                 raised |-> None, escaped |-> None,
                 loc |-> [l EXCEPT !.duplicates = @ + 1,
                                   !.skipped_duplicates =
                                       Append(@, [row |-> n + 1, email |-> t.key,
                                                  reason |-> t.msg])]]
          [] t.kind = "created" ->
                [profiles |-> t.profiles, users |-> t.users, outcome |-> "created",
                 raised |-> None, escaped |-> None, loc |-> CountCreated(l)]

\* the names the naming series of Imam issues, in order
ImamName(n) == "IMAM-" \o ToString(n)

\* one iteration of the loop of bulk_upload_imams; s is the number of names
\* the series of Imam has issued: the insert names the document, the
\* "name" cell of the row being popped
ImamRowBody(row, tbl, res, l, n, s) ==
    LET data == [c \in (DOMAIN row) \ {"name"} |-> row[c]]
        doc == [c \in (DOMAIN data) \cup {"name"} |->
                   IF c = "name" THEN ImamName(s + 1) ELSE data[c]]
    IN  IF res # "ok"
        THEN [tbl |-> tbl, series |-> s, outcome |-> "failed", raised |-> res,
              escaped |-> None,
              loc |-> CountFailed(l, [row |-> n + 1, error |-> res])]
        ELSE [tbl |-> Append(tbl, doc), series |-> s + 1, outcome |-> "created",
              raised |-> None, escaped |-> None, loc |-> CountCreated(l)]

\* the call-level `except Exception` of the four handlers
CallLevelError(e, msg) == ErrorResponse(500, 500, msg)

InLoop(e) ==
    /\ pc = "rows"
    /\ upload.endpoint = e
    /\ idx <= Len(upload.rows)

\* mutant: a row whose body failed is taken again by the next iteration
LoopStep_Retry(r) ==
    /\ loc' = r.loc
    /\ outcomes' = Append(outcomes, r.outcome)
    /\ raised' = Append(raised, r.raised)
    /\ idx' = IF r.outcome = "failed" /\ Len(outcomes) < idx THEN idx ELSE idx + 1
    /\ pc' = IF r.escaped = None THEN "rows" ELSE "done"
    /\ response' = IF r.escaped = None THEN response
                   ELSE CallLevelError(upload.endpoint, r.escaped)

\* what every iteration does with the result r of its body: an exception
\* that leaves the body ends the loop in the call-level handler
LoopStep(r) ==
    /\ loc' = r.loc
    /\ outcomes' = Append(outcomes, r.outcome)
    /\ raised' = Append(raised, r.raised)
    /\ idx' = idx + 1
    /\ pc' = IF r.escaped = None THEN "rows" ELSE "done"
    /\ response' = IF r.escaped = None THEN response
                   ELSE CallLevelError(upload.endpoint, r.escaped)

MosqueRow(res) ==
    /\ InLoop("mosque")
    /\ LET r == MosqueRowBody(upload.rows[idx], mosques, res, loc)
       IN  /\ mosques' = r.tbl
           /\ mosque_ids' = IF r.outcome = "created"
                            THEN IssueMosqueName(mosque_ids) ELSE mosque_ids
           /\ LoopStep(r)
    /\ UNCHANGED << upload, attached, households, household_ids, profiles, users, imams, files,
                    before, prevCreated, ncalls >>
    /\ UNCHANGED others

HouseholdRow(res) ==
    /\ InLoop("household")
    /\ LET r == HouseholdRowBody(upload.rows[idx], households, res, loc)
       IN  /\ households' = r.tbl
           /\ household_ids' = IF r.outcome = "created"
                               THEN IssueName(household_ids) ELSE household_ids
           /\ LoopStep(r)
    /\ UNCHANGED << upload, attached, mosques, mosque_ids, profiles, users, imams, files,
                    before, prevCreated, ncalls >>
    /\ UNCHANGED others

FaithfulRow(fault) ==
    /\ InLoop("faithful")
    /\ LET r == FaithfulRowBody(upload.rows[idx], profiles, users, fault, loc, idx)
       IN  /\ profiles' = r.profiles
           /\ users' = r.users
           /\ LoopStep(r)
    /\ UNCHANGED << upload, attached, mosques, mosque_ids, households, household_ids, imams, files, before,
                    prevCreated, ncalls >>
    /\ UNCHANGED others

ImamRow(res) ==
    /\ InLoop("imam")
    /\ LET r == ImamRowBody(upload.rows[idx], imams, res, loc, idx, series)
       IN  /\ imams' = r.tbl
           /\ series' = r.series
           /\ LoopStep(r)
    /\ UNCHANGED << upload, attached, mosques, mosque_ids, households, household_ids, profiles, users, files,
                    before, prevCreated, ncalls >>
    /\ UNCHANGED << assignment_logs, disk, cache, clock, nticks, outbox, issued,
                    imam_columns, call, verified, procs >>

(***************************************************************************)
(* After the loop: the failed-rows report and the response.                *)
(***************************************************************************)
Summary(l, rows, dups) ==
    [kind |-> "summary", total |-> l.total, created |-> l.created,
     duplicates |-> l.duplicates, failed |-> l.failed,
     failed_file_url |-> l.failed_file_url, failed_rows |-> rows,
     skipped_duplicates |-> dups]

SuccessResponse(code, data) ==
    [http |-> 200, status |-> "success", code |-> code, data |-> data,
     errors |-> None]

ReportUrl(e) == IF e = "mosque" THEN "/private/files/failed_mosques.xlsx"
                ELSE "/private/files/failed_households.xlsx"

\* bulk_register_mosques / bulk_register_households: the report is saved as
\* a File when failed_records is not empty; file_doc.save may raise, and the
\* exception reaches the call-level handler
FinishStored(e, l, fls, storeOK) ==
    IF l.failed_records # << >> /\ ~storeOK
    THEN [files |-> fls, loc |-> l,
          response |-> ErrorResponse(500, 500, "File save error")]
    ELSE LET l2 == IF l.failed_records # << >>
                   THEN [l EXCEPT !.failed_file_url = ReportUrl(e)] ELSE l
             f2 == IF l.failed_records # << >>
                   THEN Append(fls, [file_url |-> ReportUrl(e),
                                     content |-> l.failed_records])
                   ELSE fls
         IN  [files |-> f2, loc |-> l2,
              response |-> SuccessResponse(200, Summary(l2, << >>, << >>))]

\* mutant: failed rows turn the response into an error
FinishFaithful_ErrorOnFailures(l, fls) ==
    IF l.failed > 0
    THEN [files |-> fls, loc |-> l,
          response |-> ErrorResponse(500, 500, "Some rows failed")]
    ELSE [files |-> fls, loc |-> l,
          response |-> [http |-> 200, status |-> "success", code |-> 0,
                        data |-> [kind |-> "summary", total |-> l.total,
                                  created |-> l.created,
                                  duplicates |-> l.duplicates, failed |-> l.failed,
                                  failed_file_url |-> l.failed_file_url,
                                  failed_rows |-> l.failed_records,
                                  skipped_duplicates |-> l.skipped_duplicates],
                        errors |-> None]]

\* bulk_upload_faithfuls: the report goes to a temporary file only, and the
\* body has no "code" key
FinishFaithful(l, fls) ==
    [files |-> fls, loc |-> l,
     response |-> SuccessResponse(0, Summary(l, l.failed_records,
                                             l.skipped_duplicates))]

\* bulk_upload_imams: _response(..., 200, "Bulk upload finished"), no code
FinishImam(l, fls) ==
    [files |-> fls, loc |-> l,
     response |-> SuccessResponse(0, Summary(l, l.failed_records, << >>))]

FinishOf(e, l, fls, storeOK) ==
    CASE e \in {"mosque", "household"} -> FinishStored(e, l, fls, storeOK)
      [] e = "faithful" -> FinishFaithful(l, fls)
      [] e = "imam" -> FinishImam(l, fls)

BulkFinish(storeOK) ==
    /\ pc = "rows"
    /\ idx > Len(upload.rows)
    /\ LET r == FinishOf(upload.endpoint, loc, files, storeOK)
       IN  /\ files' = r.files
           /\ loc' = r.loc
           /\ response' = r.response
    /\ pc' = "done"
    /\ UNCHANGED << upload, attached, mosques, mosque_ids, households, household_ids, profiles, users, imams,
                    idx, outcomes, raised, before, prevCreated, ncalls >>
    /\ UNCHANGED others

(***************************************************************************)
(* The three save_base64_file helpers (faithful.py, mosque.py, imam.py).   *)
(* What a helper is given is [shape, mime, decodable, size]:               *)
(*   shape "data"    data:<mime>;base64,<payload>                          *)
(*         "scheme"  <other scheme>:<mime>;base64,<payload>                *)
(*         "bare"    <mime>;base64,<payload>   (no colon)                  *)
(*         "comma"   <text>,<payload>          (a comma, no ";base64,")    *)
(*         "plain"   <payload>                 (no comma)                  *)
(*   mime the MIME type the text before the payload names, decodable       *)
(*   whether base64.b64decode accepts the payload, size the number of      *)
(*   bytes it decodes to.  A helper returns the URL of the File it         *)
(*   registered, or raises.                                                *)
(***************************************************************************)
\* max_file_size = 5 * 1024 * 1024
MaxFileSize == 5 * 1024 * 1024

\* allowed_mime_types
AllowedMimeTypes == {"image/png", "image/jpeg", "application/pdf"}

MimeTypes == AllowedMimeTypes \cup {"text/html"}

Shapes == {"data", "scheme", "bare", "comma", "plain"}

DataUrls ==
    {d \in [shape : Shapes, mime : MimeTypes, decodable : BOOLEAN,
            size : {1, MaxFileSize, MaxFileSize + 1}] :
        /\ d.shape \in {"comma", "plain"} => d.mime = "image/png"
        /\ ~d.decodable => d.size = 1}

\* the strings the payloads of the requests carry as files
PngUrl == "data:image/png;base64,QQ=="
HtmlUrl == "data:text/html;base64,QQ=="
SchemeUrl == "blob:image/png;base64,QQ=="
BareUrl == "image/png;base64,QQ=="
CommaUrl == "data:image/png,QQ=="
BadPaddingUrl == "data:image/png;base64,AA"

\* what a helper is given when it is given the string u
ParseDataUrl(u) ==
    CASE u = PngUrl ->
            [shape |-> "data", mime |-> "image/png", decodable |-> TRUE, size |-> 1]
      [] u = HtmlUrl ->
            [shape |-> "data", mime |-> "text/html", decodable |-> TRUE, size |-> 1]
      [] u = SchemeUrl ->
            [shape |-> "scheme", mime |-> "image/png", decodable |-> TRUE, size |-> 1]
      [] u = BareUrl ->
            [shape |-> "bare", mime |-> "image/png", decodable |-> TRUE, size |-> 1]
      [] u = CommaUrl ->
            [shape |-> "comma", mime |-> "image/png", decodable |-> TRUE, size |-> 1]
      [] u = BadPaddingUrl ->
            [shape |-> "data", mime |-> "image/png", decodable |-> FALSE, size |-> 1]

\* attachment.startswith("data:")
StartsWithData(u) == u \in {PngUrl, HtmlUrl, CommaUrl, BadPaddingUrl}

Helpers == {"faithful", "mosque", "imam"}

Raised(dsk, fls, kind, msg) ==
    [disk |-> dsk, files |-> fls, url |-> None, raised |-> kind, msg |-> msg]

\* with open(path, "wb") as f: f.write(file_data)
WriteFile(dsk, helper, d) ==
    Append(dsk, [helper |-> helper, mime |-> d.mime, size |-> d.size])

\* the File document the helper inserts
FileDoc(helper, is_private) ==
    [file_url |-> IF is_private THEN "/private/files/" \o helper
                  ELSE "/files/" \o helper,
     content |-> << >>]

\* faithful.py save_base64_file: it looks for ";base64," and takes the
\* text after the first colon as the MIME type; every exception is raised
\* again as ValidationError("Failed to save file: ..."); the file is on
\* disk before the File is inserted
SaveFaithfulFile(d, is_private, dsk, fls, res) ==
    IF d.shape \in {"comma", "plain"}
    THEN Raised(dsk, fls, "ValidationError",
                "Failed to save file: Invalid Base64 data format")
    ELSE IF d.shape = "bare"
    THEN Raised(dsk, fls, "ValidationError",
                "Failed to save file: list index out of range")
    ELSE IF d.mime \notin AllowedMimeTypes
    THEN Raised(dsk, fls, "ValidationError",
                "Failed to save file: Unsupported file type: " \o d.mime)
    ELSE IF ~d.decodable
    THEN Raised(dsk, fls, "ValidationError", "Failed to save file: Incorrect padding")
    ELSE IF d.size > MaxFileSize
    THEN Raised(dsk, fls, "ValidationError",
                "Failed to save file: File size exceeds 5MB limit")
    ELSE IF res # "ok"
    THEN Raised(WriteFile(dsk, "faithful", d), fls, "ValidationError",
                "Failed to save file: " \o res)
    ELSE [disk |-> WriteFile(dsk, "faithful", d),
          files |-> Append(fls, FileDoc("faithful", is_private)),
          url |-> FileDoc("faithful", is_private).file_url, raised |-> None,
          msg |-> None]

\* mosque.py save_base64_file: split(",", 1), decode, write, insert
SaveMosqueFile(d, dsk, fls, res) ==
    IF d.shape = "plain"
    THEN Raised(dsk, fls, "ValueError", "not enough values to unpack")
    ELSE IF ~d.decodable
    THEN Raised(dsk, fls, "binascii.Error", "Incorrect padding")
    ELSE IF res # "ok"
    THEN Raised(WriteFile(dsk, "mosque", d), fls, "Exception", res)
    ELSE [disk |-> WriteFile(dsk, "mosque", d),
          files |-> Append(fls, FileDoc("mosque", FALSE)),
          url |-> FileDoc("mosque", FALSE).file_url, raised |-> None, msg |-> None]

\* imam.py save_base64_file: re.match(r"data:(.*?);base64,(.*)"), decode,
\* write, insert
SaveImamFile(d, dsk, fls, res) ==
    IF d.shape # "data"
    THEN Raised(dsk, fls, "ValueError", "Invalid base64 format")
    ELSE IF ~d.decodable
    THEN Raised(dsk, fls, "binascii.Error", "Incorrect padding")
    ELSE IF res # "ok"
    THEN Raised(WriteFile(dsk, "imam", d), fls, "Exception", res)
    ELSE [disk |-> WriteFile(dsk, "imam", d),
          files |-> Append(fls, FileDoc("imam", FALSE)),
          url |-> FileDoc("imam", FALSE).file_url, raised |-> None, msg |-> None]

(***************************************************************************)
(* register_mosque, with a payload of mosque_name, contact_email,          *)
(* contact_phone and images: the table, the files and the response it      *)
(* leaves.  Every exception is caught by the handler, which answers 400:   *)
(* the files stored before the exception stay stored.                      *)
(***************************************************************************)
\* the image fields, in the order of the loop
ImageFields == << "front_image", "back_image", "madrasa_image", "inside_image",
                 "ceiling_image", "minbar_image" >>

\* the loop over the image fields, from the k-th on: an image that starts
\* with "data:" is stored and replaced in the payload by its URL; the loop
\* ends at the first save_base64_file that raises
RECURSIVE AttachImages(_, _, _, _, _)
AttachImages(payload, k, dsk, fls, resFile) ==
    IF k > Len(ImageFields)
    THEN [payload |-> payload, disk |-> dsk, files |-> fls, raised |-> None,
          msg |-> None]
    ELSE LET field == ImageFields[k]
             img == Get(payload, field)
             r == SaveMosqueFile(ParseDataUrl(img), dsk, fls, resFile)
         IN  IF Truthy(img) /\ StartsWithData(img)
             THEN IF r.raised # None
                  THEN [payload |-> payload, disk |-> r.disk, files |-> r.files,
                        raised |-> r.raised, msg |-> r.msg]
                  ELSE AttachImages([payload EXCEPT ![field] = r.url], k + 1, r.disk,
                                    r.files, resFile)
             ELSE AttachImages(payload, k + 1, dsk, fls, resFile)

RegisterMosqueBody(payload, tbl, dsk, fls, resFile, res) ==
    LET email == payload.contact_email
        phone == payload.contact_phone
        Error(d, f, msg) == [tbl |-> tbl, disk |-> d, files |-> f,
                             response |-> ErrorResponse(400, 400, msg)]
        a == AttachImages(payload, 1, dsk, fls, resFile)
    IN  IF ~Truthy(payload.mosque_name)
        THEN Error(dsk, fls, "Field 'mosque_name' is mandatory.")
        ELSE IF Truthy(email) /\ Exists(tbl, "contact_email", email)
        THEN Error(dsk, fls, "Email is already in use.")
        ELSE IF Truthy(phone) /\ Exists(tbl, "contact_phone", phone)
        THEN Error(dsk, fls, "Phone is already in use.")
        ELSE IF a.raised # None THEN Error(a.disk, a.files, a.msg)
        ELSE IF res # "ok" THEN Error(a.disk, a.files, res)
        ELSE [tbl |-> Append(tbl, a.payload), disk |-> a.disk, files |-> a.files,
              response |-> [http |-> 201, status |-> "success", code |-> 201,
                            data |-> [kind |-> "doc"], errors |-> None]]

\* the Mosque tables the imports start from: empty, or holding one mosque
\* registered through register_mosque
SeedPayloads ==
    {[mosque_name |-> "nan", contact_email |-> None, contact_phone |-> None],
     [mosque_name |-> "A", contact_email |-> "e", contact_phone |-> None]}

SeededMosques ==
    {<< >>} \cup {RegisterMosqueBody(p, << >>, << >>, << >>, "ok", "ok").tbl : p \in SeedPayloads}

\* nothing outside the imports has happened
OthersIdle ==
    /\ assignment_logs = << >>
    /\ series = 0
    /\ disk = << >>
    /\ cache = << >>
    /\ clock = 0
    /\ nticks = 0
    /\ outbox = << >>
    /\ issued = << >>
    /\ imam_columns = {}
    /\ call = [op |-> "none"]
    /\ verified = {}
    /\ procs = << >>

Init ==
    /\ upload \in Uploads
    /\ attached = FALSE
    /\ mosques \in IF upload.endpoint = "mosque" THEN SeededMosques ELSE {<< >>}
    /\ mosque_ids = SeededIds(mosques)
    /\ households = << >>
    /\ household_ids = NoIds
    /\ profiles = << >>
    /\ users = {}
    /\ imams = << >>
    /\ files = << >>
    /\ pc = "idle"
    /\ idx = 1
    /\ loc = InitLoc
    /\ response = NoResponse
    /\ outcomes = << >>
    /\ raised = << >>
    /\ before = Tables
    /\ prevCreated = {}
    /\ ncalls = 0
    /\ OthersIdle

Next ==
    \/ \E att \in BOOLEAN : BulkBegin(att)
    \/ \E res \in InsertResults : MosqueRow(res)
    \/ \E res \in InsertResults : HouseholdRow(res)
    \/ \E fault \in Faults : FaithfulRow(fault)
    \/ \E res \in InsertResults : ImamRow(res)
    \/ \E storeOK \in BOOLEAN : BulkFinish(storeOK)

Spec == Init /\ [][Next]_vars

\* A persistence layer that rejects a document whose mandatory field is
\* unset: no step inserts a Mosque or a Household without its name, or a
\* Faithful Profile without a textual email and full_name.
MandatoryEnforced ==
    /\ \A i \in DOMAIN mosques' :
          i > Len(mosques) => mosques'[i].mosque_name # None
    /\ \A i \in DOMAIN households' :
          i > Len(households) => households'[i].household_name # None
    /\ \A i \in DOMAIN profiles' :
          i > Len(profiles) =>
              IsStr(profiles'[i].email) /\ IsStr(profiles'[i].full_name)

\* the same program on such a persistence layer: its behaviours are
\* behaviours of Spec
NextMandatory ==
    \/ \E att \in BOOLEAN : BulkBegin(att)
    \/ \E res \in InsertResults : MosqueRow(res) /\ MandatoryEnforced
    \/ \E res \in InsertResults : HouseholdRow(res) /\ MandatoryEnforced
    \/ \E fault \in Faults : FaithfulRow(fault) /\ MandatoryEnforced
    \/ \E res \in InsertResults : ImamRow(res)
    \/ \E storeOK \in BOOLEAN : BulkFinish(storeOK)

SpecMandatory == Init /\ [][NextMandatory]_vars

(***************************************************************************)
(* bulk_register_mosques on the sheets of one column, mosque_name, whose   *)
(* cells are "Central Mosque" or empty, against an empty Mosque table.     *)
(***************************************************************************)
MaxScenarioRows == 3

CentralMosque == "Central Mosque"

ScenarioSheets ==
    {[cols |-> {"mosque_name"}, sheet |-> rs] :
        rs \in SeqsUpTo({[mosque_name |-> n] : n \in {CentralMosque, Empty}},
                        MaxScenarioRows)}

InitScenario ==
    /\ upload \in {Readable("mosque", sh) : sh \in ScenarioSheets}
    /\ attached = FALSE
    /\ mosques = << >>
    /\ mosque_ids = NoIds
    /\ households = << >>
    /\ household_ids = NoIds
    /\ profiles = << >>
    /\ users = {}
    /\ imams = << >>
    /\ files = << >>
    /\ pc = "idle"
    /\ idx = 1
    /\ loc = InitLoc
    /\ response = NoResponse
    /\ outcomes = << >>
    /\ raised = << >>
    /\ before = Tables
    /\ prevCreated = {}
    /\ ncalls = 0
    /\ OthersIdle

NextScenario ==
    \/ \E att \in BOOLEAN : BulkBegin(att)
    \/ \E res \in InsertResults : MosqueRow(res) /\ MandatoryEnforced
    \/ \E storeOK \in BOOLEAN : BulkFinish(storeOK)

SpecScenario == InitScenario /\ [][NextScenario]_vars


\* the state of the imports, which these endpoints leave alone
ImportIdle ==
    /\ attached = FALSE
    /\ mosques = << >>
    /\ mosque_ids = NoIds
    /\ households = << >>
    /\ household_ids = NoIds
    /\ users = {}
    /\ files = << >>
    /\ pc = "idle"
    /\ idx = 1
    /\ loc = InitLoc
    /\ outcomes = << >>
    /\ raised = << >>
    /\ prevCreated = {}


(***************************************************************************)
(* The three save_base64_file helpers, each called on its own.             *)
(***************************************************************************)
\* what a call of a helper leaves alone
HelperCalled ==
    /\ ncalls < MaxCalls
    /\ ncalls' = ncalls + 1
    /\ UNCHANGED << upload, attached, mosques, mosque_ids, households, household_ids, profiles, users, imams,
                    pc, idx, loc, response, outcomes, raised, before, prevCreated,
                    assignment_logs, series, cache, clock, nticks, outbox, issued,
                    imam_columns, verified, procs >>

\* the record of a call: the helper, its argument, what it returned or raised
HelperCall(helper, d, r) ==
    [op |-> "save_base64_file", helper |-> helper, data_url |-> d, url |-> r.url,
     raised |-> r.raised, msg |-> r.msg]

SaveFaithful(d, is_private, res) ==
    /\ LET r == SaveFaithfulFile(d, is_private, disk, files, res)
       IN  /\ disk' = r.disk
           /\ files' = r.files
           /\ call' = HelperCall("faithful", d, r)
    /\ HelperCalled

SaveMosque(d, res) ==
    /\ LET r == SaveMosqueFile(d, disk, files, res)
       IN  /\ disk' = r.disk
           /\ files' = r.files
           /\ call' = HelperCall("mosque", d, r)
    /\ HelperCalled

SaveImam(d, res) ==
    /\ LET r == SaveImamFile(d, disk, files, res)
       IN  /\ disk' = r.disk
           /\ files' = r.files
           /\ call' = HelperCall("imam", d, r)
    /\ HelperCalled

InitFile ==
    /\ ImportIdle
    /\ upload = Unreadable("faithful")
    /\ imams = << >>
    /\ profiles = << >>
    /\ response = NoResponse
    /\ before = Tables
    /\ ncalls = 0
    /\ OthersIdle

NextFile ==
    \/ \E d \in DataUrls, is_private \in BOOLEAN, res \in InsertResults :
            SaveFaithful(d, is_private, res)
    \/ \E d \in DataUrls, res \in InsertResults : SaveMosque(d, res)
    \/ \E d \in DataUrls, res \in InsertResults : SaveImam(d, res)

SpecFile == InitFile /\ [][NextFile]_vars

(***************************************************************************)
(* The Imam endpoints of imam.py and delete_faithful of faithful.py.  An   *)
(* Imam is [name, faithful, mosque_assigned, date_appointed, mosque,       *)
(* certifications]: `mosque` is the attribute reassign_imam reads and      *)
(* writes, which is a column of the table only when the doctype (not part  *)
(* of the sources) defines it; `certifications` is the child table, a      *)
(* sequence of [attachment].                                               *)
(***************************************************************************)
\* _response(data, status, message, code=None, errors=None): "code" and
\* "errors" are left out of the body when falsy
ImamResponse(data, http, code, errors) ==
    [http |-> http, status |-> IF http < 400 THEN "success" ELSE "error",
     code |-> code, data |-> data, errors |-> errors]

\* _error(message, code, status, errors=None)
ImamError(code, http, errors) == ImamResponse(NullData, http, code, errors)

ImamColumns == {"name", "faithful", "mosque_assigned", "date_appointed"}

RequestNames == {None, "IMAM-1", "IMAM-2"}
MosqueIds == {"M1", "M2"}

ImamPayloads ==
    [faithful : {None, "F1"}, mosque_assigned : {None} \cup MosqueIds,
     date_appointed : {None, "2024-01-01"}]

\* frappe.get_doc("Imam", name): the position of the record, 0 when absent
Find(tbl, name) ==
    IF \E i \in DOMAIN tbl : tbl[i].name = name
    THEN CHOOSE i \in DOMAIN tbl : tbl[i].name = name
    ELSE 0

\* doc.update(payload)
UpdateDoc(doc, payload) ==
    [f \in DOMAIN doc |-> IF f \in DOMAIN payload THEN payload[f] ELSE doc[f]]

\* tbl without its i-th record
Remove(tbl, i) == SubSeq(tbl, 1, i - 1) \o SubSeq(tbl, i + 1, Len(tbl))

\* frappe.get_all("Imam", filters={"mosque_assigned": m}): the names listed
ImamsByMosque(tbl, m) ==
    LET hits == SelectSeq(tbl, LAMBDA d : d.mosque_assigned = m)
    IN  [k \in DOMAIN hits |-> hits[k].name]

\* get_imams_by_mosque
GetImamsByMosqueBody(tbl, m) ==
    ImamResponse([kind |-> "list", names |-> ImamsByMosque(tbl, m)], 200, 0, None)

\* register_imam: the table, the series and the response it leaves
RegisterImamBody(payload, tbl, n, res) ==
    LET doc == [name |-> ImamName(n + 1), faithful |-> payload.faithful,
                mosque_assigned |-> payload.mosque_assigned,
                date_appointed |-> payload.date_appointed, mosque |-> None,
                certifications |-> << >>]
        Missing == [tbl |-> tbl, series |-> n, response |-> ImamError(400, 400, None)]
    IN  IF ~Truthy(payload.faithful) THEN Missing
        ELSE IF ~Truthy(payload.mosque_assigned) THEN Missing
        ELSE IF ~Truthy(payload.date_appointed) THEN Missing
        ELSE IF res # "ok"
        THEN [tbl |-> tbl, series |-> n, response |-> ImamError(500, 500, res)]
        ELSE [tbl |-> Append(tbl, doc), series |-> n + 1,
              response |-> ImamResponse([kind |-> "doc", doc |-> doc], 200, 0, None)]

\* reassign_imam: it reads and writes imam.mosque, never mosque_assigned
ReassignImamBody(name, new_mosque, tbl, logs, cols, resSave, resLog) ==
    LET i == Find(tbl, name)
        Failed(t, msg) == [tbl |-> t, logs |-> logs,
                           response |-> ImamError(500, 500, msg)]
    IN  IF ~Truthy(name) \/ ~Truthy(new_mosque)
        THEN [tbl |-> tbl, logs |-> logs, response |-> ImamError(400, 400, None)]
        ELSE IF i = 0 THEN Failed(tbl, "Imam not found")
        ELSE IF "mosque" \notin cols
        THEN Failed(tbl, "'Imam' object has no attribute 'mosque'")
        ELSE LET old == tbl[i].mosque
                 saved == [tbl EXCEPT ![i].mosque = new_mosque]
                 log == [parent |-> name, old_mosque |-> old,
                         new_mosque |-> new_mosque]
             IN  IF resSave # "ok" THEN Failed(tbl, resSave)
                 ELSE IF resLog # "ok" THEN Failed(saved, resLog)
                 ELSE [tbl |-> saved, logs |-> Append(logs, log),
                       response |-> ImamResponse([kind |-> "doc", doc |-> saved[i]],
                                                 200, 0, None)]

\* the loop of update_imam over the certifications of the payload: an
\* attachment that starts with "data:" is stored and replaced by its URL,
\* an empty one becomes None, any other stays; the loop ends at the first
\* upload that raises
RECURSIVE AttachCertifications(_, _, _, _)
AttachCertifications(certs, dsk, fls, resFile) ==
    IF certs = << >>
    THEN [certs |-> << >>, disk |-> dsk, files |-> fls, raised |-> None, msg |-> None]
    ELSE LET attachment == Head(certs).attachment
             first == IF Truthy(attachment) /\ StartsWithData(attachment)
                      THEN SaveImamFile(ParseDataUrl(attachment), dsk, fls, resFile)
                      ELSE [disk |-> dsk, files |-> fls,
                            url |-> IF Truthy(attachment) THEN attachment ELSE None,
                            raised |-> None, msg |-> None]
             rest == AttachCertifications(Tail(certs), first.disk, first.files,
                                          resFile)
         IN  IF first.raised # None
             THEN [certs |-> << >>, disk |-> first.disk, files |-> first.files,
                   raised |-> first.raised, msg |-> first.msg]
             ELSE [rest EXCEPT !.certs = << [attachment |-> first.url] >> \o @]

\* update_imam: it sets every field of the payload, mosque_assigned
\* included, and writes no assignment log
UpdateImamBody(payload, tbl, dsk, fls, resFile, resSave) ==
    LET name == Get(payload, "name")
        Out(t, d, f, r) == [tbl |-> t, disk |-> d, files |-> f, response |-> r]
        i == Find(tbl, name)
        certifications == IF "certifications" \in DOMAIN payload
                          THEN payload.certifications ELSE << >>
        rest == [k \in (DOMAIN payload) \ {"name", "certifications"} |-> payload[k]]
        a == AttachCertifications(certifications, dsk, fls, resFile)
        doc == IF certifications # << >>
               THEN [tbl[i] EXCEPT !.certifications = a.certs]
               ELSE tbl[i]
        saved == [tbl EXCEPT ![i] = UpdateDoc(doc, rest)]
    IN  IF ~Truthy(name) THEN Out(tbl, dsk, fls, ImamError(400, 400, None))
        ELSE IF i = 0 THEN Out(tbl, dsk, fls, ImamError(404, 404, None))
        ELSE IF a.raised # None
        THEN Out(tbl, a.disk, a.files, ImamError(400, 400, a.msg))
        ELSE IF resSave # "ok"
        THEN Out(tbl, a.disk, a.files, ImamError(500, 500, resSave))
        ELSE Out(saved, a.disk, a.files,
                 ImamResponse([kind |-> "doc", doc |-> saved[i]], 200, 0, None))

\* delete_imam
DeleteImamBody(name, tbl, res) ==
    LET i == Find(tbl, name)
    IN  IF ~Truthy(name)
        THEN [tbl |-> tbl, response |-> ImamError(400, 400, None)]
        ELSE IF i = 0
        THEN [tbl |-> tbl, response |-> ImamError(404, 404, None)]
        ELSE IF res # "ok"
        THEN [tbl |-> tbl, response |-> ImamError(500, 500, res)]
        ELSE [tbl |-> Remove(tbl, i),
              response |-> ImamResponse([kind |-> "name", name |-> name], 200, 0, None)]

\* delete_faithful: its bodies have no "code" key; the ValidationError of
\* the argument check is caught by `except Exception` (400)
DeleteFaithfulBody(name, user_id, tbl, res) ==
    LET i == IF Truthy(user_id)
             THEN IF \E k \in DOMAIN tbl : tbl[k].user_id = user_id
                  THEN CHOOSE k \in DOMAIN tbl : tbl[k].user_id = user_id ELSE 0
             ELSE Find(tbl, name)
        Error(http, msg) ==
            [tbl |-> tbl,
             response |-> [http |-> http, status |-> "error", code |-> 0,
                           data |-> NullData, errors |-> msg]]
    IN  IF ~Truthy(name) /\ ~Truthy(user_id)
        THEN Error(400, "You must provide either 'name' or 'user_id'")
        ELSE IF i = 0 THEN Error(404, "No record found")
        ELSE IF res # "ok" THEN Error(400, res)
        ELSE [tbl |-> Remove(tbl, i),
              response |-> [http |-> 200, status |-> "success", code |-> 0,
                            data |-> [kind |-> "name", name |-> tbl[i].name],
                            errors |-> None]]

\* what every request of these endpoints leaves alone
Served(c) ==
    /\ ncalls < MaxCalls
    /\ ncalls' = ncalls + 1
    /\ call' = c
    /\ UNCHANGED << upload, attached, mosques, mosque_ids, households, household_ids, users, pc, idx, loc,
                    outcomes, raised, before, prevCreated, cache, clock, nticks,
                    outbox, issued, imam_columns, verified, procs >>

RegisterImam(payload, res) ==
    /\ Served([op |-> "register_imam", payload |-> payload])
    /\ LET r == RegisterImamBody(payload, imams, series, res)
       IN  /\ imams' = r.tbl
           /\ series' = r.series
           /\ response' = r.response
    /\ UNCHANGED << profiles, assignment_logs, disk, files >>

ReassignImam(name, new_mosque, resSave, resLog) ==
    /\ Served([op |-> "reassign_imam", name |-> name, new_mosque |-> new_mosque])
    /\ LET r == ReassignImamBody(name, new_mosque, imams, assignment_logs,
                                 imam_columns, resSave, resLog)
       IN  /\ imams' = r.tbl
           /\ assignment_logs' = r.logs
           /\ response' = r.response
    /\ UNCHANGED << profiles, series, disk, files >>

UpdateImam(payload, resFile, resSave) ==
    /\ Served([op |-> "update_imam", payload |-> payload])
    /\ LET r == UpdateImamBody(payload, imams, disk, files, resFile, resSave)
       IN  /\ imams' = r.tbl
           /\ disk' = r.disk
           /\ files' = r.files
           /\ response' = r.response
    /\ UNCHANGED << profiles, series, assignment_logs >>

DeleteImam(name, res) ==
    /\ Served([op |-> "delete_imam", name |-> name])
    /\ LET r == DeleteImamBody(name, imams, res)
       IN  /\ imams' = r.tbl
           /\ response' = r.response
    /\ UNCHANGED << profiles, series, assignment_logs, disk, files >>

GetImamsByMosque(m) ==
    /\ Served([op |-> "get_imams_by_mosque", mosque_assigned |-> m])
    /\ response' = GetImamsByMosqueBody(imams, m)
    /\ UNCHANGED << imams, profiles, series, assignment_logs, disk, files >>

DeleteFaithful(name, user_id, res) ==
    /\ Served([op |-> "delete_faithful", name |-> name, user_id |-> user_id])
    /\ LET r == DeleteFaithfulBody(name, user_id, profiles, res)
       IN  /\ profiles' = r.tbl
           /\ response' = r.response
    /\ UNCHANGED << imams, series, assignment_logs, disk, files >>

\* what a certification of an update_imam payload carries as attachment
Attachments ==
    {None, "/files/old.pdf", PngUrl, HtmlUrl, SchemeUrl, CommaUrl, BadPaddingUrl}

\* the payloads of update_imam
UpdateImamPayloads ==
    {[name |-> nm] : nm \in RequestNames}
    \cup {[name |-> "IMAM-1", mosque_assigned |-> m] : m \in MosqueIds}
    \cup {[name |-> "IMAM-1", certifications |-> << [attachment |-> u] >>] :
             u \in Attachments}
    \cup {[name |-> "IMAM-1",
           certifications |-> << [attachment |-> PngUrl], [attachment |-> u] >>] :
             u \in {HtmlUrl, CommaUrl}}

\* the Imam tables the requests start from: empty, or holding the Imam a
\* register_imam created
SeededImams ==
    {[tbl |-> << >>, series |-> 0]}
    \cup {[tbl |-> r.tbl, series |-> r.series] :
             r \in {RegisterImamBody([faithful |-> "F1", mosque_assigned |-> "M1",
                                      date_appointed |-> "2024-01-01"],
                                     << >>, 0, "ok")}}

InitImam ==
    /\ ImportIdle
    /\ upload = Unreadable("imam")
    /\ \E sd \in SeededImams : imams = sd.tbl /\ series = sd.series
    /\ profiles \in {<< >>, << [name |-> "FP-1", user_id |-> "a@x"] >>}
    /\ imam_columns \in {ImamColumns, ImamColumns \cup {"mosque"}}
    /\ assignment_logs = << >>
    /\ response = NoResponse
    /\ before = Tables
    /\ ncalls = 0
    /\ disk = << >>
    /\ cache = << >>
    /\ clock = 0
    /\ nticks = 0
    /\ outbox = << >>
    /\ issued = << >>
    /\ call = [op |-> "none"]
    /\ verified = {}
    /\ procs = << >>

NextImam ==
    \/ \E payload \in ImamPayloads, res \in InsertResults : RegisterImam(payload, res)
    \/ \E name \in RequestNames, m \in {None} \cup MosqueIds,
          resSave \in InsertResults, resLog \in InsertResults :
            ReassignImam(name, m, resSave, resLog)
    \/ \E payload \in UpdateImamPayloads, resFile \in InsertResults,
          resSave \in InsertResults :
            UpdateImam(payload, resFile, resSave)
    \/ \E name \in RequestNames, res \in InsertResults : DeleteImam(name, res)
    \/ \E m \in MosqueIds : GetImamsByMosque(m)
    \/ \E name \in {None, "FP-1"}, user_id \in {None, "a@x"}, res \in InsertResults :
            DeleteFaithful(name, user_id, res)

SpecImam == InitImam /\ [][NextImam]_vars

(***************************************************************************)
(* send_otp and verify_otp (auth.py) against frappe.cache() and the clock. *)
(* The cache maps a key to [val, expires]; a key set at time t with        *)
(* expires_in_sec = n is readable at the times before t + n.  A request    *)
(* takes no time; the clock advances between requests.                     *)
(***************************************************************************)
\* expires_in_sec of the cooldown key and of the OTP key
CooldownSec == 60
OtpTtlSec == 300

Emails == {"a@x", "b@y"}

\* str(random.randint(100000, 999999)): the two ends of the range
Codes == {"100000", "999999"}

\* what a client passes as otp: a code, a code with spaces around it, a
\* string no send_otp issues
OtpInputs == Codes \cup {" 100000 ", "000000"}

\* the steps by which the clock advances
Ticks == {1, 59, 240}

OtpKey(email) == << "otp", email >>
CooldownKey(email) == << "otp_cooldown", email >>
CacheKeys == {OtpKey(e) : e \in Emails} \cup {CooldownKey(e) : e \in Emails}

Absent == [val |-> None, expires |-> 0]

\* frappe.cache().get_value(key)
GetValue(c, key, now) ==
    IF c[key].val # None /\ now < c[key].expires THEN c[key].val ELSE None

\* frappe.cache().set_value(key, val, expires_in_sec=ttl)
SetValue(c, key, val, now, ttl) ==
    [c EXCEPT ![key] = [val |-> val, expires |-> now + ttl]]

\* frappe.cache().delete_value(key)
DeleteValue(c, key) == [c EXCEPT ![key] = Absent]

\* the cache at time `now`: the keys whose time is up are gone
Expire(c, now) == [k \in DOMAIN c |-> IF c[k].expires <= now THEN Absent ELSE c[k]]

\* a dict returned by a whitelisted function: sent with HTTP 200
OtpResponse(status, message) ==
    [http |-> 200, status |-> status, code |-> 0, data |-> NullData,
     errors |-> None, message |-> message]

AlreadySent == "OTP already sent. Please wait before requesting again."
ExpiredOrNotFound == "OTP expired or not found."

NeverIssued == [at |-> 0, otp |-> None]

\* mutant: the cooldown key lives for half a minute
SendOtpBody_ShortCooldown(email, otp, mailOK, c, now, out, iss) ==
    IF Truthy(GetValue(c, CooldownKey(email), now))
    THEN [cache |-> c, outbox |-> out, issued |-> iss,
          response |-> OtpResponse("error", AlreadySent)]
    ELSE LET c1 == SetValue(c, OtpKey(email), otp, now, OtpTtlSec)
             c2 == SetValue(c1, CooldownKey(email), "True", now, 30)
             iss2 == [iss EXCEPT ![email] = [at |-> now, otp |-> otp]]
         IN  IF mailOK
             THEN [cache |-> c2, outbox |-> Append(out, [to |-> email, otp |-> otp]),
                   issued |-> iss2,
                   response |-> OtpResponse("success", "OTP sent successfully.")]
             ELSE [cache |-> c2, outbox |-> out, issued |-> iss2,
                   response |-> OtpResponse("error", "Error sending OTP")]

\* mutant: the OTP and the cooldown are stored once the mail has left
SendOtpBody_StoreAfterMail(email, otp, mailOK, c, now, out, iss) ==
    IF Truthy(GetValue(c, CooldownKey(email), now))
    THEN [cache |-> c, outbox |-> out, issued |-> iss,
          response |-> OtpResponse("error", AlreadySent)]
    ELSE LET c1 == SetValue(c, OtpKey(email), otp, now, OtpTtlSec)
             c2 == SetValue(c1, CooldownKey(email), "True", now, CooldownSec)
             iss2 == [iss EXCEPT ![email] = [at |-> now, otp |-> otp]]
         IN  IF mailOK
             THEN [cache |-> c2, outbox |-> Append(out, [to |-> email, otp |-> otp]),
                   issued |-> iss2,
                   response |-> OtpResponse("success", "OTP sent successfully.")]
             ELSE [cache |-> c, outbox |-> out, issued |-> iss2,
                   response |-> OtpResponse("error", "Error sending OTP")]

\* mutant: a code still stored for the e-mail is kept, the new one is lost
SendOtpBody_KeepFirst(email, otp, mailOK, c, now, out, iss) ==
    IF Truthy(GetValue(c, CooldownKey(email), now))
    THEN [cache |-> c, outbox |-> out, issued |-> iss,
          response |-> OtpResponse("error", AlreadySent)]
    ELSE LET c1 == IF Truthy(GetValue(c, OtpKey(email), now))
                   THEN c
                   ELSE SetValue(c, OtpKey(email), otp, now, OtpTtlSec)
             c2 == SetValue(c1, CooldownKey(email), "True", now, CooldownSec)
             iss2 == [iss EXCEPT ![email] = [at |-> now, otp |-> otp]]
         IN  IF mailOK
             THEN [cache |-> c2, outbox |-> Append(out, [to |-> email, otp |-> otp]),
                   issued |-> iss2,
                   response |-> OtpResponse("success", "OTP sent successfully.")]
             ELSE [cache |-> c2, outbox |-> out, issued |-> iss2,
                   response |-> OtpResponse("error", "Error sending OTP")]

\* send_otp(email): otp is the number random.randint drew, mailOK whether
\* frappe.sendmail returned
SendOtpBody(email, otp, mailOK, c, now, out, iss) ==
    IF Truthy(GetValue(c, CooldownKey(email), now))
    THEN [cache |-> c, outbox |-> out, issued |-> iss,
          response |-> OtpResponse("error", AlreadySent)]
    ELSE LET c1 == SetValue(c, OtpKey(email), otp, now, OtpTtlSec)
             c2 == SetValue(c1, CooldownKey(email), "True", now, CooldownSec)
             iss2 == [iss EXCEPT ![email] = [at |-> now, otp |-> otp]]
         IN  IF mailOK
             THEN [cache |-> c2, outbox |-> Append(out, [to |-> email, otp |-> otp]),
                   issued |-> iss2,
                   response |-> OtpResponse("success", "OTP sent successfully.")]
             ELSE [cache |-> c2, outbox |-> out, issued |-> iss2,
                   response |-> OtpResponse("error", "Error sending OTP")]

\* mutant: any otp is accepted while a code is stored
VerifyOtpBody_NoCompare(email, otp, c, now) ==
    LET cached_otp == GetValue(c, OtpKey(email), now)
    IN  IF ~Truthy(cached_otp)
        THEN [cache |-> c, response |-> OtpResponse("error", ExpiredOrNotFound)]
        ELSE [cache |-> DeleteValue(c, OtpKey(email)),
              response |-> OtpResponse("success", "OTP verified successfully.")]

\* mutant: the accepted code stays in the cache
VerifyOtpBody_NoDelete(email, otp, c, now) ==
    LET cached_otp == GetValue(c, OtpKey(email), now)
    IN  IF ~Truthy(cached_otp)
        THEN [cache |-> c, response |-> OtpResponse("error", ExpiredOrNotFound)]
        ELSE IF Str(cached_otp) # Strip(Str(otp))
        THEN [cache |-> c, response |-> OtpResponse("error", "Invalid OTP.")]
        ELSE [cache |-> c,
              response |-> OtpResponse("success", "OTP verified successfully.")]

\* verify_otp(email, otp)
VerifyOtpBody(email, otp, c, now) ==
    LET cached_otp == GetValue(c, OtpKey(email), now)
    IN  IF ~Truthy(cached_otp)
        THEN [cache |-> c, response |-> OtpResponse("error", ExpiredOrNotFound)]
        ELSE IF Str(cached_otp) # Strip(Str(otp))
        THEN [cache |-> c, response |-> OtpResponse("error", "Invalid OTP.")]
        ELSE [cache |-> DeleteValue(c, OtpKey(email)),
              response |-> OtpResponse("success", "OTP verified successfully.")]

\* what the OTP requests and the clock leave alone
OtpFrame ==
    UNCHANGED << upload, attached, mosques, mosque_ids, households, household_ids, profiles, users, imams,
                 files, pc, idx, loc, outcomes, raised, before, prevCreated,
                 assignment_logs, series, disk, imam_columns, procs >>

\* what the OTP requests served at once leave alone
OtpFrameRace ==
    UNCHANGED << upload, attached, mosques, mosque_ids, households, household_ids, profiles, users, imams,
                 files, pc, idx, loc, outcomes, raised, before, prevCreated,
                 assignment_logs, series, disk, imam_columns >>

SendOtp(email, otp, mailOK) ==
    /\ ncalls < MaxCalls
    /\ LET r == SendOtpBody(email, otp, mailOK, cache, clock, outbox, issued)
       IN  /\ cache' = r.cache
           /\ outbox' = r.outbox
           /\ issued' = r.issued
           /\ response' = r.response
           /\ verified' = IF r.issued = issued THEN verified ELSE verified \ {email}
    /\ call' = [op |-> "send_otp", email |-> email, otp |-> otp]
    /\ ncalls' = ncalls + 1
    /\ UNCHANGED << clock, nticks >>
    /\ OtpFrame

VerifyOtp(email, otp) ==
    /\ ncalls < MaxCalls
    /\ LET r == VerifyOtpBody(email, otp, cache, clock)
       IN  /\ cache' = r.cache
           /\ response' = r.response
           /\ verified' = IF r.response.status = "success"
                          THEN verified \cup {email} ELSE verified
    /\ call' = [op |-> "verify_otp", email |-> email, otp |-> otp]
    /\ ncalls' = ncalls + 1
    /\ UNCHANGED << clock, nticks, outbox, issued >>
    /\ OtpFrame

\* d seconds pass
Tick(d) ==
    /\ nticks < MaxTicks
    /\ nticks' = nticks + 1
    /\ clock' = clock + d
    /\ cache' = Expire(cache, clock + d)
    /\ UNCHANGED << ncalls, outbox, issued, response, call, verified >>
    /\ OtpFrame

InitOtp ==
    /\ ImportIdle
    /\ upload = Unreadable("faithful")
    /\ imams = << >>
    /\ profiles = << >>
    /\ response = NoResponse
    /\ before = Tables
    /\ ncalls = 0
    /\ assignment_logs = << >>
    /\ series = 0
    /\ disk = << >>
    /\ imam_columns = {}
    /\ cache = [k \in CacheKeys |-> Absent]
    /\ clock = 0
    /\ nticks = 0
    /\ outbox = << >>
    /\ issued = [e \in Emails |-> NeverIssued]
    /\ call = [op |-> "none"]
    /\ verified = {}
    /\ procs = << >>

NextOtp ==
    \/ \E email \in Emails, otp \in Codes, mailOK \in BOOLEAN : SendOtp(email, otp, mailOK)
    \/ \E email \in Emails, otp \in OtpInputs : VerifyOtp(email, otp)
    \/ \E d \in Ticks : Tick(d)

SpecOtp == InitOtp /\ [][NextOtp]_vars

\* The same requests, from the states a first send_otp at time 0 leaves: it
\* was for FirstEmail and drew otp.
FirstEmail == "a@x"
FirstCode == "999999"

FirstSends(otp) ==
    {SendOtpBody(FirstEmail, otp, mailOK, [k \in CacheKeys |-> Absent], 0, << >>,
                 [e \in Emails |-> NeverIssued]) :
        mailOK \in BOOLEAN}

InitOtpIssued ==
    /\ ImportIdle
    /\ upload = Unreadable("faithful")
    /\ imams = << >>
    /\ profiles = << >>
    /\ before = Tables
    /\ ncalls = 0
    /\ assignment_logs = << >>
    /\ series = 0
    /\ disk = << >>
    /\ imam_columns = {}
    /\ \E r \in FirstSends(FirstCode) :
          /\ cache = r.cache
          /\ outbox = r.outbox
          /\ issued = r.issued
          /\ response = r.response
          /\ call = [op |-> "send_otp", email |-> FirstEmail, otp |-> r.issued[FirstEmail].otp]
    /\ clock = 0
    /\ nticks = 0
    /\ verified = {}
    /\ procs = << >>

SpecOtpIssued == InitOtpIssued /\ [][NextOtp]_vars

(***************************************************************************)
(* verify_otp served by two workers at once.  The read of the key          *)
(* (auth.py:48) and its deletion (auth.py:63) are two commands sent to the *)
(* cache server; the commands of the two requests interleave.  A request   *)
(* is [pc, email, otp, cached_otp, response], pc being "start" (nothing    *)
(* done), "read" (cached_otp holds what get_value returned) or "done".     *)
(***************************************************************************)
Workers == {1, 2}

NewRequest(email, otp) ==
    [pc |-> "start", email |-> email, otp |-> otp, cached_otp |-> None,
     response |-> NoResponse]

\* cached_otp = frappe.cache().get_value(f"otp:{email}")
VerifyRead(w) ==
    /\ procs[w].pc = "start"
    /\ procs' = [procs EXCEPT ![w].pc = "read",
                              ![w].cached_otp = GetValue(cache, OtpKey(procs[w].email), clock)]
    /\ UNCHANGED << cache, clock, nticks, outbox, issued, response, call, ncalls,
                    verified >>
    /\ OtpFrameRace

\* the rest of verify_otp: the two comparisons, delete_value, the answer
VerifyFinish(w) ==
    /\ procs[w].pc = "read"
    /\ LET q == procs[w]
           r == IF ~Truthy(q.cached_otp)
                THEN [cache |-> cache,
                      response |-> OtpResponse("error", ExpiredOrNotFound)]
                ELSE IF Str(q.cached_otp) # Strip(Str(q.otp))
                THEN [cache |-> cache, response |-> OtpResponse("error", "Invalid OTP.")]
                ELSE [cache |-> DeleteValue(cache, OtpKey(q.email)),
                      response |-> OtpResponse("success", "OTP verified successfully.")]
       IN  /\ cache' = r.cache
           /\ procs' = [procs EXCEPT ![w].pc = "done", ![w].response = r.response]
    /\ UNCHANGED << clock, nticks, outbox, issued, response, call, ncalls, verified >>
    /\ OtpFrameRace

\* d seconds pass while the requests are in progress
TickRace(d) ==
    /\ nticks < MaxTicks
    /\ nticks' = nticks + 1
    /\ clock' = clock + d
    /\ cache' = Expire(cache, clock + d)
    /\ UNCHANGED << ncalls, outbox, issued, response, call, verified, procs >>
    /\ OtpFrameRace

InitOtpRace ==
    /\ ImportIdle
    /\ upload = Unreadable("faithful")
    /\ imams = << >>
    /\ profiles = << >>
    /\ before = Tables
    /\ ncalls = 0
    /\ assignment_logs = << >>
    /\ series = 0
    /\ disk = << >>
    /\ imam_columns = {}
    /\ \E r \in FirstSends("100000") :
          /\ cache = r.cache
          /\ outbox = r.outbox
          /\ issued = r.issued
          /\ response = r.response
          /\ call = [op |-> "send_otp", email |-> FirstEmail, otp |-> r.issued[FirstEmail].otp]
    /\ clock = 0
    /\ nticks = 0
    /\ verified = {}
    /\ procs \in [Workers -> {NewRequest(e, o) : e \in Emails, o \in OtpInputs}]

NextOtpRace ==
    \/ \E w \in Workers : VerifyRead(w)
    \/ \E w \in Workers : VerifyFinish(w)
    \/ \E d \in Ticks : TickRace(d)

SpecOtpRace == InitOtpRace /\ [][NextOtpRace]_vars

(***************************************************************************)
(* register_faithful and update_faithful (faithful.py).  A Faithful        *)
(* Profile is a record over ProfileFields; a payload is a function from    *)
(* the keys the request carries to their values.  A file of the payload is *)
(* a data URL, written as the string that names it.  Every exception is    *)
(* caught in the handler, which then returns its Response: what was        *)
(* written before the exception stays written.                             *)
(***************************************************************************)
FileFields == {"profile_image", "national_id_document", "special_needs_proof"}

ProfileFields == {"name", "email", "full_name", "special_needs"} \cup FileFields

\* the name the naming series gives the n-th Faithful Profile
ProfileName(n) == "FP-" \o ToString(n)

\* {k: payload.pop(k, None) for k in file_fields}, and the payload left
FilePayloads(payload) == [k \in FileFields |-> Get(payload, k)]
WithoutFiles(payload) == [k \in (DOMAIN payload) \ FileFields |-> payload[k]]

\* frappe.new_doc("Faithful Profile") followed by doc.update(payload)
NewProfile(payload) == [f \in ProfileFields |-> Get(payload, f)]

\* one `if file_payloads[field]: doc.field = save_base64_file(...)` block,
\* run unless an earlier block has raised
AttachFile(prev, field, is_private, wanted, fp) ==
    IF prev.raised # None \/ ~wanted
    THEN prev
    ELSE LET r == SaveFaithfulFile(ParseDataUrl(fp[field]), is_private, prev.disk,
                                   prev.files, "ok")
         IN  [doc |-> IF r.raised = None THEN [prev.doc EXCEPT ![field] = r.url]
                      ELSE prev.doc,
              disk |-> r.disk, files |-> r.files, raised |-> r.raised, msg |-> r.msg]

\* the three blocks of register_faithful
AttachOnRegister(doc, payload, fp, dsk, fls) ==
    LET s0 == [doc |-> doc, disk |-> dsk, files |-> fls, raised |-> None, msg |-> None]
        s1 == AttachFile(s0, "profile_image", FALSE, Truthy(fp.profile_image), fp)
        s2 == AttachFile(s1, "national_id_document", TRUE,
                         Truthy(fp.national_id_document), fp)
    IN  AttachFile(s2, "special_needs_proof", TRUE,
                   Truthy(fp.special_needs_proof)
                     /\ Get(payload, "special_needs") = "Yes", fp)

\* the three blocks of update_faithful: the last one has an elif that
\* clears the proof
AttachOnUpdate(doc, payload, fp, dsk, fls) ==
    LET s0 == [doc |-> doc, disk |-> dsk, files |-> fls, raised |-> None, msg |-> None]
        s1 == AttachFile(s0, "profile_image", FALSE, Truthy(fp.profile_image), fp)
        s2 == AttachFile(s1, "national_id_document", TRUE,
                         Truthy(fp.national_id_document), fp)
    IN  IF s2.raised # None THEN s2
        ELSE IF Truthy(fp.special_needs_proof) /\ Get(payload, "special_needs") = "Yes"
        THEN AttachFile(s2, "special_needs_proof", TRUE, TRUE, fp)
        ELSE IF Get(payload, "special_needs") # "Yes"
        THEN [s2 EXCEPT !.doc.special_needs_proof = None]
        ELSE s2

\* where register_faithful may meet a failure of the persistence layer
RegisterFaults == {"none", "insert", "save", "user", "roles"}

\* register_faithful; n is the number of names the series has issued
RegisterFaithfulBody(payload, profs, usrs, dsk, fls, n, fault) ==
    LET email == Get(payload, "email")
        full_name == Get(payload, "full_name")
        Out(p, u, d, f, m, r) ==
            [profiles |-> p, users |-> u, disk |-> d, files |-> f, series |-> m,
             response |-> r]
        fp == FilePayloads(payload)
        rest == WithoutFiles(payload)
        doc == [NewProfile(rest) EXCEPT !.name = ProfileName(n + 1)]
        inserted == Append(profs, doc)
        a == AttachOnRegister(doc, rest, fp, dsk, fls)
        saved == [inserted EXCEPT ![Len(inserted)] = a.doc]
        user_email == Lower(Strip(email))
    IN  IF ~Truthy(email)
        THEN Out(profs, usrs, dsk, fls, n,
                 ErrorResponse(400, 400, "Missing required field: 'email'"))
        ELSE IF ~Truthy(full_name)
        THEN Out(profs, usrs, dsk, fls, n,
                 ErrorResponse(400, 400, "Missing required field: 'full_name'"))
        ELSE IF fault = "insert"
        THEN Out(profs, usrs, dsk, fls, n, ErrorResponse(400, 400, "DbError"))
        ELSE IF a.raised # None
        THEN Out(inserted, usrs, a.disk, a.files, n + 1,
                 ErrorResponse(400, 400, a.msg))
        ELSE IF fault = "save"
        THEN Out(inserted, usrs, a.disk, a.files, n + 1,
                 ErrorResponse(400, 400, "DbError"))
        ELSE IF user_email \in usrs
        THEN Out(saved, usrs, a.disk, a.files, n + 1,
                 ErrorResponse(409, 409, "User already exists."))
        ELSE IF fault = "user"
        THEN Out(saved, usrs, a.disk, a.files, n + 1,
                 ErrorResponse(400, 400, "DbError"))
        ELSE IF fault = "roles"
        THEN Out(saved, usrs \cup {user_email}, a.disk, a.files, n + 1,
                 ErrorResponse(400, 400, "DbError"))
        ELSE Out(saved, usrs \cup {user_email}, a.disk, a.files, n + 1,
                 [http |-> 201, status |-> "success", code |-> 201,
                  data |-> [kind |-> "doc"], errors |-> None])

\* update_faithful
UpdateFaithfulBody(payload, profs, dsk, fls, res) ==
    LET name == Get(payload, "name")
        Out(p, d, f, r) == [profiles |-> p, disk |-> d, files |-> f, response |-> r]
        i == Find(profs, name)
        fp == FilePayloads(payload)
        rest == WithoutFiles(payload)
        a == AttachOnUpdate(UpdateDoc(profs[i], rest), rest, fp, dsk, fls)
    IN  IF ~Truthy(name)
        THEN Out(profs, dsk, fls,
                 ErrorResponse(400, 400, "Missing 'name' field in data for update."))
        ELSE IF i = 0
        THEN Out(profs, dsk, fls, ErrorResponse(404, 404, "No record found"))
        ELSE IF a.raised # None
        THEN Out(profs, a.disk, a.files, ErrorResponse(400, 400, a.msg))
        ELSE IF res # "ok"
        THEN Out(profs, a.disk, a.files, ErrorResponse(400, 400, res))
        ELSE Out([profs EXCEPT ![i] = a.doc], a.disk, a.files,
                 [http |-> 200, status |-> "success", code |-> 200,
                  data |-> [kind |-> "doc"], errors |-> None])

\* what a request of these two endpoints leaves alone
FaithfulServed(c) ==
    /\ ncalls < MaxCalls
    /\ ncalls' = ncalls + 1
    /\ call' = c
    /\ UNCHANGED << upload, attached, mosques, mosque_ids, households, household_ids, imams, pc, idx, loc,
                    outcomes, raised, before, prevCreated, assignment_logs, cache,
                    clock, nticks, outbox, issued, imam_columns, verified, procs >>

RegisterFaithful(payload, fault) ==
    /\ FaithfulServed([op |-> "register_faithful", payload |-> payload])
    /\ LET r == RegisterFaithfulBody(payload, profiles, users, disk, files, series,
                                     fault)
       IN  /\ profiles' = r.profiles
           /\ users' = r.users
           /\ disk' = r.disk
           /\ files' = r.files
           /\ series' = r.series
           /\ response' = r.response

UpdateFaithful(payload, res) ==
    /\ FaithfulServed([op |-> "update_faithful", payload |-> payload])
    /\ LET r == UpdateFaithfulBody(payload, profiles, disk, files, res)
       IN  /\ profiles' = r.profiles
           /\ disk' = r.disk
           /\ files' = r.files
           /\ response' = r.response
    /\ UNCHANGED << users, series >>

\* the payloads of register_faithful
RegisterPayloads ==
    {[email |-> e, full_name |-> "A"] : e \in {None, "a@x", " A@x"}}
    \cup {[email |-> "a@x"]}
    \cup {[email |-> "a@x", full_name |-> "A", profile_image |-> u] :
             u \in {PngUrl, HtmlUrl, SchemeUrl, BareUrl, CommaUrl, BadPaddingUrl}}
    \cup {[email |-> "b@y", full_name |-> "B", special_needs |-> sn,
           special_needs_proof |-> u] :
             sn \in {"Yes", "No"}, u \in {PngUrl, HtmlUrl}}

\* the payloads of update_faithful
UpdatePayloads ==
    {[name |-> nm] : nm \in {None, "FP-1", "FP-2"}}
    \cup {[name |-> "FP-1", full_name |-> "C"]}
    \cup {[name |-> "FP-1", special_needs |-> sn] : sn \in {"Yes", "No"}}
    \cup {[name |-> "FP-1", special_needs |-> "Yes", special_needs_proof |-> u] :
             u \in {PngUrl, HtmlUrl}}
    \cup {[name |-> "FP-1", national_id_document |-> u] :
             u \in {PngUrl, SchemeUrl, BadPaddingUrl}}

\* the tables the requests start from: empty, or as a register_faithful
\* with a proof of special needs left them
SeededFaithfuls ==
    {[profiles |-> << >>, users |-> {}, disk |-> << >>, files |-> << >>,
      series |-> 0, response |-> NoResponse],
     RegisterFaithfulBody([email |-> "b@y", full_name |-> "B", special_needs |-> "Yes",
                           special_needs_proof |-> PngUrl],
                          << >>, {}, << >>, << >>, 0, "none")}

InitFaithful ==
    /\ upload = Unreadable("faithful")
    /\ attached = FALSE
    /\ mosques = << >>
    /\ mosque_ids = NoIds
    /\ households = << >>
    /\ household_ids = NoIds
    /\ imams = << >>
    /\ \E sd \in SeededFaithfuls :
          /\ profiles = sd.profiles
          /\ users = sd.users
          /\ disk = sd.disk
          /\ files = sd.files
          /\ series = sd.series
    /\ pc = "idle"
    /\ idx = 1
    /\ loc = InitLoc
    /\ outcomes = << >>
    /\ raised = << >>
    /\ prevCreated = {}
    /\ response = NoResponse
    /\ before = Tables
    /\ ncalls = 0
    /\ assignment_logs = << >>
    /\ imam_columns = {}
    /\ cache = << >>
    /\ clock = 0
    /\ nticks = 0
    /\ outbox = << >>
    /\ issued = << >>
    /\ call = [op |-> "none"]
    /\ verified = {}
    /\ procs = << >>

NextFaithful ==
    \/ \E payload \in RegisterPayloads, fault \in RegisterFaults :
            RegisterFaithful(payload, fault)
    \/ \E payload \in UpdatePayloads, res \in InsertResults :
            UpdateFaithful(payload, res)

SpecFaithful == InitFaithful /\ [][NextFaithful]_vars

(***************************************************************************)
(* register_mosque, update_mosque, delete_mosque and bulk_register_mosques *)
(* on one Mosque table, from empty storage.  The name of a Mosque document *)
(* is the id it got when inserted, kept in mosque_ids.                     *)
(***************************************************************************)
MosqueDocNames == {"MOSQUE-1", "MOSQUE-2"}

\* frappe.get_doc("Mosque", name): the position of the document called
\* name, 0 when there is none
DocIndex(ids, name) ==
    IF \E i \in DOMAIN ids.names : ids.names[i] = name
    THEN CHOOSE i \in DOMAIN ids.names : ids.names[i] = name
    ELSE 0

\* frappe.db.get_value("Mosque", {field: v}, "name"): the position of the
\* first match, 0 for None
FirstWith(tbl, field, v) ==
    IF \E i \in DOMAIN tbl : Get(tbl[i], field) = v
    THEN CHOOSE i \in DOMAIN tbl :
            /\ Get(tbl[i], field) = v
            /\ \A j \in DOMAIN tbl : Get(tbl[j], field) = v => i <= j
    ELSE 0

\* doc.update(payload) on a document whose unset fields are left out
SetFields(doc, fields) ==
    [k \in (DOMAIN doc) \cup (DOMAIN fields) |->
        IF k \in DOMAIN fields THEN fields[k] ELSE doc[k]]

\* update_mosque
UpdateMosqueBody(payload, tbl, ids, dsk, fls, resFile, res) ==
    LET name == Get(payload, "name")
        i == DocIndex(ids, name)
        email == Get(payload, "contact_email")
        phone == Get(payload, "contact_phone")
        Error(d, f, msg) == [tbl |-> tbl, disk |-> d, files |-> f,
                             response |-> ErrorResponse(400, 400, msg)]
        a == AttachImages(payload, 1, dsk, fls, resFile)
        fields == [k \in (DOMAIN payload) \ {"name"} |-> a.payload[k]]
    IN  IF ~Truthy(name)
        THEN Error(dsk, fls, "Missing 'name' field in data for update.")
        ELSE IF i = 0
        THEN Error(dsk, fls, "Mosque not found")
        ELSE IF /\ Truthy(email)
                /\ FirstWith(tbl, "contact_email", email) \notin {0, i}
        THEN Error(dsk, fls, "Email is already in use.")
        ELSE IF /\ Truthy(phone)
                /\ FirstWith(tbl, "contact_phone", phone) \notin {0, i}
        THEN Error(dsk, fls, "Phone is already in use.")
        ELSE IF a.raised # None THEN Error(a.disk, a.files, a.msg)
        ELSE IF res # "ok" THEN Error(a.disk, a.files, res)
        ELSE [tbl |-> [tbl EXCEPT ![i] = SetFields(tbl[i], fields)],
              disk |-> a.disk, files |-> a.files,
              response |-> [http |-> 200, status |-> "success", code |-> 200,
                            data |-> [kind |-> "doc"], errors |-> None]]

\* delete_mosque
DeleteMosqueBody(name, tbl, ids, res) ==
    LET i == DocIndex(ids, name)
        Error(http, msg) == [tbl |-> tbl, ids |-> ids,
                             response |-> ErrorResponse(http, http, msg)]
    IN  IF ~Truthy(name)
        THEN Error(400, "You must provide 'name' to delete a mosque.")
        ELSE IF i = 0 THEN Error(404, "No Mosque found for name")
        ELSE IF res # "ok" THEN Error(400, res)
        ELSE [tbl |-> Remove(tbl, i), ids |-> [ids EXCEPT !.names = Remove(@, i)],
              response |-> [http |-> 200, status |-> "success", code |-> 200,
                            data |-> [kind |-> "name", name |-> name],
                            errors |-> None]]

\* what a request of register_mosque, update_mosque or delete_mosque
\* leaves alone; no import is in progress while it is served
MosqueServed(c) ==
    /\ pc \in {"idle", "done"}
    /\ ncalls < MaxCalls
    /\ ncalls' = ncalls + 1
    /\ call' = c
    /\ UNCHANGED << upload, attached, households, household_ids, profiles, users,
                    imams, pc, idx, loc, outcomes, raised, before, prevCreated,
                    assignment_logs, series, cache, clock, nticks, outbox, issued,
                    imam_columns, verified, procs >>

RegisterMosque(payload, resFile, res) ==
    /\ MosqueServed([op |-> "register_mosque", payload |-> payload])
    /\ LET r == RegisterMosqueBody(payload, mosques, disk, files, resFile, res)
       IN  /\ mosques' = r.tbl
           /\ mosque_ids' = IF r.response.http = 201
                            THEN IssueMosqueName(mosque_ids) ELSE mosque_ids
           /\ disk' = r.disk
           /\ files' = r.files
           /\ response' = r.response

UpdateMosque(payload, resFile, res) ==
    /\ MosqueServed([op |-> "update_mosque", payload |-> payload])
    /\ LET r == UpdateMosqueBody(payload, mosques, mosque_ids, disk, files, resFile,
                                 res)
       IN  /\ mosques' = r.tbl
           /\ disk' = r.disk
           /\ files' = r.files
           /\ response' = r.response
    /\ UNCHANGED mosque_ids

DeleteMosque(name, res) ==
    /\ MosqueServed([op |-> "delete_mosque", name |-> name])
    /\ LET r == DeleteMosqueBody(name, mosques, mosque_ids, res)
       IN  /\ mosques' = r.tbl
           /\ mosque_ids' = r.ids
           /\ response' = r.response
    /\ UNCHANGED << disk, files >>

\* what a payload carries as an image
Images == {PngUrl, HtmlUrl, CommaUrl, BadPaddingUrl, SchemeUrl}

RegisterMosquePayloads ==
    [mosque_name : {None, "A", "B"}, contact_email : {None, "e"},
     contact_phone : {None, "p"}]
    \cup {[mosque_name |-> "A", contact_email |-> None, contact_phone |-> None,
           front_image |-> u] : u \in Images}
    \cup {[mosque_name |-> "A", contact_email |-> "e", contact_phone |-> "p",
           front_image |-> PngUrl, minbar_image |-> u] :
             u \in {PngUrl, BadPaddingUrl}}

UpdateMosquePayloads ==
    {[name |-> nm] : nm \in {None} \cup MosqueDocNames}
    \cup {[name |-> nm, mosque_name |-> n] : nm \in MosqueDocNames, n \in {"A", "B"}}
    \cup {[name |-> nm, contact_email |-> "e"] : nm \in MosqueDocNames}
    \cup {[name |-> nm, contact_phone |-> "p"] : nm \in MosqueDocNames}
    \cup {[name |-> "MOSQUE-1", front_image |-> u] : u \in {PngUrl, BadPaddingUrl}}

\* the files of bulk_register_mosques: names with and without a leading
\* space, with an e-mail or none
RegistrySheets ==
    Sheets({"mosque_name", "contact_email"},
           {[mosque_name |-> n, contact_email |-> m] :
               n \in {"A", " A"}, m \in {Empty, "e"}})

InitMosque ==
    /\ upload \in {Readable("mosque", sh) : sh \in RegistrySheets}
    /\ attached = FALSE
    /\ mosques = << >>
    /\ mosque_ids = NoIds
    /\ households = << >>
    /\ household_ids = NoIds
    /\ profiles = << >>
    /\ users = {}
    /\ imams = << >>
    /\ files = << >>
    /\ pc = "idle"
    /\ idx = 1
    /\ loc = InitLoc
    /\ response = NoResponse
    /\ outcomes = << >>
    /\ raised = << >>
    /\ before = Tables
    /\ prevCreated = {}
    /\ ncalls = 0
    /\ OthersIdle

NextMosque ==
    \/ \E payload \in RegisterMosquePayloads, resFile \in InsertResults,
          res \in InsertResults :
            RegisterMosque(payload, resFile, res)
    \/ \E payload \in UpdateMosquePayloads, resFile \in InsertResults,
          res \in InsertResults :
            UpdateMosque(payload, resFile, res)
    \/ \E name \in {None} \cup MosqueDocNames, res \in InsertResults :
            DeleteMosque(name, res)
    \/ \E att \in BOOLEAN : BulkBegin(att)
    \/ \E res \in InsertResults : MosqueRow(res)
    \/ \E storeOK \in BOOLEAN : BulkFinish(storeOK)

SpecMosque == InitMosque /\ [][NextMosque]_vars

(***************************************************************************)
(* Two bulk_register_mosques calls, or two bulk_register_households calls, *)
(* served by two workers at once, from empty storage.  An iteration of the *)
(* row loop reads the table (frappe.db.exists) and later writes it         *)
(* (doc.insert); the reads and writes of the two calls interleave, every   *)
(* write being visible to the reads after it.  A call is [endpoint, rows,  *)
(* pc, idx, seen, loc, response]: pc is "check" (before the reads of row   *)
(* idx), "insert" (the reads of row idx were made on the table `seen`) or  *)
(* "done".                                                                 *)
(***************************************************************************)
RaceEndpoints == {"mosque", "household"}

\* the files: one column, the names "A" and "B"
RaceSheets(e) ==
    {sh \in (IF e = "mosque"
             THEN Sheets({"mosque_name"}, {[mosque_name |-> n] : n \in {"A", "B"}})
             ELSE Sheets({"household_name"},
                         {[household_name |-> n] : n \in {"A", "B"}})) :
        sh.sheet # << >>}

NewImport(e, sh) ==
    [endpoint |-> e, rows |-> Readable(e, sh).rows, pc |-> "check", idx |-> 1,
     seen |-> << >>, loc |-> [InitLoc EXCEPT !.total = Len(Readable(e, sh).rows)],
     response |-> NoResponse]

TableOf(e) == IF e = "mosque" THEN mosques ELSE households

\* the iteration of the loop of the endpoint, its reads made on `seen`
RaceRowBody(q, res) ==
    IF q.endpoint = "mosque"
    THEN MosqueRowBody(q.rows[q.idx], q.seen, res, q.loc)
    ELSE HouseholdRowBody(q.rows[q.idx], q.seen, res, q.loc)

RaceFrame ==
    UNCHANGED << upload, attached, profiles, users, imams, pc, idx, loc, response,
                 outcomes, raised, before, prevCreated, ncalls, assignment_logs,
                 series, disk, cache, clock, nticks, outbox, issued, imam_columns,
                 call, verified >>

\* the frappe.db.exists reads of row idx
RowCheck(w) ==
    /\ procs[w].pc = "check"
    /\ procs[w].idx <= Len(procs[w].rows)
    /\ procs' = [procs EXCEPT ![w].pc = "insert",
                              ![w].seen = TableOf(procs[w].endpoint)]
    /\ UNCHANGED << mosques, mosque_ids, households, household_ids, files >>
    /\ RaceFrame

\* the rest of the iteration: `continue`, or doc.insert and created += 1,
\* or the except clause
RowInsert(w, res) ==
    /\ procs[w].pc = "insert"
    /\ LET q == procs[w]
           r == RaceRowBody(q, res)
           tbl == IF r.outcome = "created"
                  THEN Append(TableOf(q.endpoint), r.tbl[Len(r.tbl)])
                  ELSE TableOf(q.endpoint)
       IN  /\ mosques' = IF q.endpoint = "mosque" THEN tbl ELSE mosques
           /\ mosque_ids' = IF q.endpoint = "mosque" /\ r.outcome = "created"
                            THEN IssueMosqueName(mosque_ids) ELSE mosque_ids
           /\ households' = IF q.endpoint = "household" THEN tbl ELSE households
           /\ household_ids' = IF q.endpoint = "household" /\ r.outcome = "created"
                               THEN IssueName(household_ids) ELSE household_ids
           /\ procs' = [procs EXCEPT ![w].pc = "check", ![w].idx = q.idx + 1,
                                     ![w].loc = r.loc, ![w].seen = << >>]
    /\ UNCHANGED files
    /\ RaceFrame

\* after the loop: the report and the response
ImportFinish(w, storeOK) ==
    /\ procs[w].pc = "check"
    /\ procs[w].idx > Len(procs[w].rows)
    /\ LET q == procs[w]
           r == FinishOf(q.endpoint, q.loc, files, storeOK)
       IN  /\ files' = r.files
           /\ procs' = [procs EXCEPT ![w].pc = "done", ![w].loc = r.loc,
                                     ![w].response = r.response]
    /\ UNCHANGED << mosques, mosque_ids, households, household_ids >>
    /\ RaceFrame

InitBulkRace ==
    /\ upload = Unreadable("mosque")
    /\ attached = FALSE
    /\ mosques = << >>
    /\ mosque_ids = NoIds
    /\ households = << >>
    /\ household_ids = NoIds
    /\ profiles = << >>
    /\ users = {}
    /\ imams = << >>
    /\ files = << >>
    /\ pc = "idle"
    /\ idx = 1
    /\ loc = InitLoc
    /\ response = NoResponse
    /\ outcomes = << >>
    /\ raised = << >>
    /\ before = Tables
    /\ prevCreated = {}
    /\ ncalls = 0
    /\ assignment_logs = << >>
    /\ series = 0
    /\ disk = << >>
    /\ cache = << >>
    /\ clock = 0
    /\ nticks = 0
    /\ outbox = << >>
    /\ issued = << >>
    /\ imam_columns = {}
    /\ call = [op |-> "none"]
    /\ verified = {}
    /\ \E e \in RaceEndpoints :
          procs \in [Workers -> {NewImport(e, sh) : sh \in RaceSheets(e)}]

NextBulkRace ==
    \/ \E w \in Workers : RowCheck(w)
    \/ \E w \in Workers, res \in InsertResults : RowInsert(w, res)
    \/ \E w \in Workers, storeOK \in BOOLEAN : ImportFinish(w, storeOK)

SpecBulkRace == InitBulkRace /\ [][NextBulkRace]_vars

(***************************************************************************)
(* create_household, update_household, delete_household and                *)
(* bulk_register_households (household.py) on one Household table.  A      *)
(* Household is [household_name]; the name of the document is kept in      *)
(* household_ids.  Nothing serialises the requests.  The import is the     *)
(* call procs[1], whose iteration reads the table (RowCheck) and later     *)
(* writes it (RowInsert).  An update or a delete is served by one of the   *)
(* RequestWorkers in two steps, frappe.get_doc and then doc.save or        *)
(* doc.delete, and the steps of the other requests fall between the two.   *)
(* The request of a worker is [pc, op, name, body, doc, stale]: pc is      *)
(* "idle" or "read" (get_doc has returned doc); stale tells that the       *)
(* document was saved by another request since get_doc read it, which is   *)
(* what doc.save finds when it compares the `modified` timestamps          *)
(* (Document.check_if_latest).  A create is one step, its only access to   *)
(* the table being doc.insert.                                             *)
(***************************************************************************)
\* frappe.get_doc("Household", name): the position of the document, 0 when
\* there is none (DoesNotExistError)
HouseholdIndex(ids, name) ==
    IF \E i \in DOMAIN ids.names : ids.names[i] = name
    THEN CHOOSE i \in DOMAIN ids.names : ids.names[i] = name
    ELSE 0

\* what doc.insert may do: succeed, or raise DuplicateEntryError, a
\* ValidationError, another exception
HouseholdInsertResults == {"ok", "DuplicateEntryError", "ValidationError", "DbError"}

HouseholdSuccess(http, data) ==
    [http |-> http, status |-> "success", code |-> http, data |-> data,
     errors |-> None]

\* create_household: frappe.new_doc, doc.update(payload), doc.insert; the
\* handler looks for no household of the same name.  body is the JSON of
\* the request
CreateHouseholdBody(body, tbl, ids, res) ==
    LET Error(http, msg) == [tbl |-> tbl, ids |-> ids,
                             response |-> ErrorResponse(http, http, msg)]
        doc == UpdateDoc([household_name |-> None], body.data)
    IN  IF "data" \notin DOMAIN body THEN Error(400, "Missing 'data' object in payload.")
        ELSE IF res = "DuplicateEntryError"
        THEN Error(409, "A household with the same name already exists.")
        ELSE IF res # "ok" THEN Error(400, res)
        ELSE [tbl |-> Append(tbl, doc), ids |-> IssueName(ids),
              response |-> HouseholdSuccess(201, [kind |-> "doc"])]

\* the workers that serve update_household and delete_household
RequestWorkers == {2, 3}

IdleRequest ==
    [pc |-> "idle", op |-> "none", name |-> None, body |-> << >>, doc |-> << >>,
     stale |-> FALSE]

\* the request of a worker whose get_doc has returned doc
ReadRequest(op, name, body, doc) ==
    [pc |-> "read", op |-> op, name |-> name, body |-> body, doc |-> doc,
     stale |-> FALSE]

HouseholdNotFound == ErrorResponse(404, 404, "No Household found with name")

\* update_household up to frappe.get_doc: the answer when the request ends
\* there (kind "answer"), or the document read (kind "read")
UpdateHouseholdGetBody(body, tbl, ids) ==
    LET payload == body.data
        name == Get(payload, "name")
        i == HouseholdIndex(ids, name)
        Answer(r) == [kind |-> "answer", response |-> r]
    IN  IF "data" \notin DOMAIN body
        THEN Answer(ErrorResponse(400, 400, "Missing 'data' object in payload."))
        ELSE IF ~Truthy(name)
        THEN Answer(ErrorResponse(400, 400, "Missing 'name' field in data for update."))
        ELSE IF i = 0 THEN Answer(HouseholdNotFound)
        ELSE [kind |-> "read", name |-> name, doc |-> tbl[i]]

\* update_household from doc.update(payload): doc.save raises when the
\* document is gone (DoesNotExistError or a ValidationError, as the version
\* of frappe has it: `gone`), when it was saved since it was read
\* (TimestampMismatchError), or as res tells
UpdateHouseholdSaveBody(q, tbl, ids, res, gone) ==
    LET i == HouseholdIndex(ids, q.name)
        Error(r) == [tbl |-> tbl, saved |-> FALSE, response |-> r]
    IN  IF i = 0
        THEN IF gone = "DoesNotExistError" THEN Error(HouseholdNotFound)
             ELSE Error(ErrorResponse(400, 400, "Record does not exist"))
        ELSE IF q.stale THEN Error(ErrorResponse(400, 400, "TimestampMismatchError"))
        ELSE IF res # "ok" THEN Error(ErrorResponse(400, 400, res))
        ELSE [tbl |-> [tbl EXCEPT ![i] = UpdateDoc(q.doc, q.body.data)],
              saved |-> TRUE,
              response |-> HouseholdSuccess(200, [kind |-> "doc"])]

\* delete_household from doc.delete: frappe.delete_doc returns without a
\* word when the document is gone (ignore_missing), and the handler answers
\* success
DeleteHouseholdDeleteBody(name, tbl, ids, res) ==
    LET i == HouseholdIndex(ids, name)
        Deleted(t, d) ==
            [tbl |-> t, ids |-> d,
             response |-> HouseholdSuccess(200, [kind |-> "name", name |-> name])]
    IN  IF i = 0 THEN Deleted(tbl, ids)
        ELSE IF res # "ok"
        THEN [tbl |-> tbl, ids |-> ids, response |-> ErrorResponse(400, 400, res)]
        ELSE Deleted(Remove(tbl, i), [ids EXCEPT !.names = Remove(@, i)])

\* create_household served: what it leaves alone
HouseholdServed(c) ==
    /\ ncalls < MaxCalls
    /\ ncalls' = ncalls + 1
    /\ call' = c
    /\ UNCHANGED << upload, attached, mosques, mosque_ids, profiles, users, imams, files, pc,
                    idx, loc, outcomes, raised, before, prevCreated,
                    assignment_logs, series, disk, cache, clock, nticks, outbox,
                    issued, imam_columns, verified, procs >>

CreateHousehold(body, res) ==
    /\ HouseholdServed([op |-> "create_household", body |-> body])
    /\ LET r == CreateHouseholdBody(body, households, household_ids, res)
       IN  /\ households' = r.tbl
           /\ household_ids' = r.ids
           /\ response' = r.response

\* what a step of a request worker leaves alone
RequestFrame ==
    UNCHANGED << upload, attached, mosques, mosque_ids, profiles, users, imams, files, pc,
                 idx, loc, outcomes, raised, before, prevCreated,
                 assignment_logs, series, disk, cache, clock, nticks, outbox,
                 issued, imam_columns, verified >>

\* update_household begins: it answers at once, or get_doc returns
UpdateHouseholdGet(w, body) ==
    /\ ncalls < MaxCalls
    /\ procs[w].pc = "idle"
    /\ ncalls' = ncalls + 1
    /\ LET r == UpdateHouseholdGetBody(body, households, household_ids)
       IN  IF r.kind = "answer"
           THEN /\ response' = r.response
                /\ call' = [op |-> "update_household", body |-> body]
                /\ UNCHANGED procs
           ELSE /\ procs' = [procs EXCEPT
                                ![w] = ReadRequest("update_household", r.name, body, r.doc)]
                /\ UNCHANGED << response, call >>
    /\ UNCHANGED << households, household_ids >>
    /\ RequestFrame

\* update_household ends: doc.update, doc.save and the answer; the requests
\* that have read the document saved hold a stale copy of it
UpdateHouseholdSave(w, res, gone) ==
    /\ procs[w].pc = "read"
    /\ procs[w].op = "update_household"
    /\ LET q == procs[w]
           r == UpdateHouseholdSaveBody(q, households, household_ids, res, gone)
       IN  /\ households' = r.tbl
           /\ response' = r.response
           /\ call' = [op |-> "update_household", body |-> q.body]
           /\ procs' = [v \in DOMAIN procs |->
                           IF v = w THEN IdleRequest
                           ELSE IF /\ r.saved
                                   /\ v \in RequestWorkers
                                   /\ procs[v].pc = "read"
                                   /\ procs[v].name = q.name
                                THEN [procs[v] EXCEPT !.stale = TRUE]
                                ELSE procs[v]]
    /\ UNCHANGED << household_ids, ncalls >>
    /\ RequestFrame

\* delete_household begins: get_doc raises DoesNotExistError, or returns
DeleteHouseholdGet(w, name) ==
    /\ ncalls < MaxCalls
    /\ procs[w].pc = "idle"
    /\ ncalls' = ncalls + 1
    /\ IF HouseholdIndex(household_ids, name) = 0
       THEN /\ response' = HouseholdNotFound
            /\ call' = [op |-> "delete_household", name |-> name]
            /\ UNCHANGED procs
       ELSE /\ procs' = [procs EXCEPT
                            ![w] = ReadRequest("delete_household", name, << >>,
                                               households[HouseholdIndex(household_ids,
                                                                         name)])]
            /\ UNCHANGED << response, call >>
    /\ UNCHANGED << households, household_ids >>
    /\ RequestFrame

\* delete_household ends: doc.delete and the answer
DeleteHouseholdDelete(w, res) ==
    /\ procs[w].pc = "read"
    /\ procs[w].op = "delete_household"
    /\ LET q == procs[w]
           r == DeleteHouseholdDeleteBody(q.name, households, household_ids, res)
       IN  /\ households' = r.tbl
           /\ household_ids' = r.ids
           /\ response' = r.response
           /\ call' = [op |-> "delete_household", name |-> q.name]
           /\ procs' = [procs EXCEPT ![w] = IdleRequest]
    /\ UNCHANGED ncalls
    /\ RequestFrame

HouseholdDocNames == {"HH-1", "HH-2"}

\* the JSON bodies of create_household: without "data", or with a payload
CreateHouseholdBodies ==
    {[meta |-> "m"]}
    \cup {[data |-> p] : p \in {[village |-> "V"]}
                               \cup {[household_name |-> n] : n \in {"A", "B"}}}

\* the JSON bodies of update_household
UpdateHouseholdBodies ==
    {[meta |-> "m"]}
    \cup {[data |-> p] :
             p \in {[household_name |-> "B"]}
                   \cup {[name |-> nm] : nm \in HouseholdDocNames}
                   \cup {[name |-> nm, household_name |-> n] :
                            nm \in HouseholdDocNames, n \in {"A", "B"}}}

\* the files of bulk_register_households
RegistryHouseholdSheets ==
    Sheets({"household_name"}, {[household_name |-> n] : n \in {"A", " A", Empty}})

InitHousehold ==
    /\ upload = Unreadable("household")
    /\ attached = FALSE
    /\ mosques = << >>
    /\ mosque_ids = NoIds
    /\ households = << >>
    /\ household_ids = NoIds
    /\ profiles = << >>
    /\ users = {}
    /\ imams = << >>
    /\ files = << >>
    /\ pc = "idle"
    /\ idx = 1
    /\ loc = InitLoc
    /\ response = NoResponse
    /\ outcomes = << >>
    /\ raised = << >>
    /\ before = Tables
    /\ prevCreated = {}
    /\ ncalls = 0
    /\ assignment_logs = << >>
    /\ series = 0
    /\ disk = << >>
    /\ cache = << >>
    /\ clock = 0
    /\ nticks = 0
    /\ outbox = << >>
    /\ issued = << >>
    /\ imam_columns = {}
    /\ call = [op |-> "none"]
    /\ verified = {}
    /\ procs \in {<< NewImport("household", sh), IdleRequest, IdleRequest >> :
                      sh \in RegistryHouseholdSheets}

NextHousehold ==
    \/ \E body \in CreateHouseholdBodies, res \in HouseholdInsertResults :
            CreateHousehold(body, res)
    \/ \E w \in RequestWorkers, body \in UpdateHouseholdBodies :
            UpdateHouseholdGet(w, body)
    \/ \E w \in RequestWorkers, res \in InsertResults,
          gone \in {"DoesNotExistError", "ValidationError"} :
            UpdateHouseholdSave(w, res, gone)
    \/ \E w \in RequestWorkers, name \in HouseholdDocNames \cup {"HH-9"} :
            DeleteHouseholdGet(w, name)
    \/ \E w \in RequestWorkers, res \in InsertResults : DeleteHouseholdDelete(w, res)
    \/ RowCheck(1)
    \/ \E res \in InsertResults : RowInsert(1, res)
    \/ \E storeOK \in BOOLEAN : ImportFinish(1, storeOK)

SpecHousehold == InitHousehold /\ [][NextHousehold]_vars

(***************************************************************************)
(* Properties of the bulk imports.                                         *)
(***************************************************************************)
\* the call has returned its success summary
Succeeded == pc = "done" /\ response.status = "success"

\* the positions, in increasing order, of the rows whose outcome is in tags
Positions(os, tags) ==
    SelectSeq([i \in 1..Len(os) |-> i], LAMBDA i : os[i] \in tags)

\* the column whose value identifies a row in the report
KeyCol(e) == IF e = "mosque" THEN "mosque_name" ELSE "household_name"

\* C1: when a bulk import returns its summary, created + duplicates +
\* failed equals the number of rows of the file, which is the total it
\* reports; the imam import reports no duplicates (counted as 0).
C1_CountsAddUp ==
    Succeeded =>
        /\ response.data.total = Len(upload.rows)
        /\ response.data.created + response.data.duplicates
              + response.data.failed = Len(upload.rows)
        /\ (upload.endpoint = "imam" => response.data.duplicates = 0)

C1_Witness ==
    /\ Succeeded
    /\ response.data.created = 1
    /\ response.data.duplicates = 1
    /\ response.data.total = 2

\* the key the report entry of a row carries: the stripped name for a
\* duplicate, the cell as read for a failure
ExpectedKey(e, row, o) ==
    IF o = "duplicate" THEN Strip(Str(Get(row, KeyCol(e)))) ELSE Get(row, KeyCol(e))

\* C2: when a bulk import returns its summary every data row of the
\* uploaded file (upload.sheet, the empty rows included) has exactly one
\* outcome, each counter is the number of rows with that outcome, and the
\* lists of non-created rows (the stored report of the mosque and household
\* imports, failed_rows and skipped_duplicates of the faithful import,
\* errors of the imam import) hold duplicates + failed entries, one per
\* non-created row, in the order of the rows.  outcomes has one entry per
\* row the loop went through, and the loop goes through upload.rows, the
\* rows read_excel returned.
C2_OneOutcomePerRow ==
    Succeeded =>
        LET e == upload.endpoint
            d == response.data
            nonCreated == Positions(outcomes, {"duplicate", "failed"})
            failedAt == Positions(outcomes, {"failed"})
            dupAt == Positions(outcomes, {"duplicate"})
            report == loc.failed_records
        IN  /\ Len(outcomes) = Len(upload.sheet)
            /\ d.created = Len(Positions(outcomes, {"created"}))
            /\ d.duplicates = Len(dupAt)
            /\ d.failed = Len(failedAt)
            /\ Len(loc.failed_records) + Len(loc.skipped_duplicates)
                  = d.duplicates + d.failed
            /\ IF e \in {"mosque", "household"}
               THEN /\ Len(report) = Len(nonCreated)
                    /\ \A k \in 1..Len(nonCreated) :
                          report[k].key = ExpectedKey(e, upload.rows[nonCreated[k]],
                                                      outcomes[nonCreated[k]])
                    /\ report # << >> =>
                          /\ files # << >>
                          /\ files[Len(files)].content = report
               ELSE /\ Len(d.failed_rows) = Len(failedAt)
                    /\ \A k \in 1..Len(failedAt) : d.failed_rows[k].row = failedAt[k] + 1
                    /\ Len(d.skipped_duplicates) = Len(dupAt)
                    /\ \A k \in 1..Len(dupAt) :
                          d.skipped_duplicates[k].row = dupAt[k] + 1

\* the row the loop is about to process
AtRow == pc = "rows" /\ idx <= Len(upload.rows)
Row == upload.rows[idx]

\* the uniqueness key of the row about to be processed is the key of a
\* persisted record of the entity the import creates
KeyAlreadyPersisted ==
    CASE upload.endpoint = "mosque" ->
            Exists(mosques, "mosque_name", Strip(Str(Get(Row, "mosque_name"))))
      [] upload.endpoint = "household" ->
            Exists(households, "household_name",
                   Strip(Str(Get(Row, "household_name"))))
      [] upload.endpoint = "faithful" ->
            /\ IsStr(Get(Row, "email"))
            /\ \E i \in DOMAIN profiles :
                  /\ IsStr(profiles[i].email)
                  /\ Lower(Strip(profiles[i].email)) = Lower(Strip(Get(Row, "email")))
                  /\ profiles[i].full_name = Get(Row, "full_name")
      [] OTHER -> FALSE

\* C3: a row whose uniqueness key matches a record already persisted for
\* the entity when the row is processed is counted as a duplicate, and
\* processing it creates no record.
C3_PersistedKeyIsDuplicate ==
    [][(AtRow /\ KeyAlreadyPersisted /\ idx' = idx + 1) =>
          /\ outcomes'[idx] = "duplicate"
          /\ loc'.duplicates = loc.duplicates + 1
          /\ Tables' = Tables]_vars

Blank(v) == v \in {None, NaN, "", "  "}

\* a required field of the row about to be processed is blank or missing
RequiredFieldBlank ==
    CASE upload.endpoint = "mosque" -> Blank(Get(Row, "mosque_name"))
      [] upload.endpoint = "household" -> Blank(Get(Row, "household_name"))
      [] upload.endpoint = "faithful" ->
            Blank(Get(Row, "email")) \/ Blank(Get(Row, "full_name"))
      [] OTHER -> FALSE

\* C4: a row whose required field is blank or missing is counted as
\* failed: processing it increments neither created nor duplicates and
\* creates no record.
C4_BlankRowFails ==
    [][(AtRow /\ RequiredFieldBlank /\ idx' = idx + 1) =>
          /\ outcomes'[idx] = "failed"
          /\ loc'.created = loc.created
          /\ loc'.duplicates = loc.duplicates
          /\ Tables' = Tables]_vars

\* the number of entries of failed_records written up to row i: the mosque
\* and household imports put duplicates and failures in the one list
EntriesUpTo(i) ==
    Cardinality({j \in 1..i :
        outcomes[j] = "failed"
        \/ (outcomes[j] = "duplicate" /\ upload.endpoint \in {"mosque", "household"})})

\* C5: an exception raised while row i is processed is recorded as a
\* failed outcome of row i that carries the exception's message; the loop
\* goes on to every later row, and the exception never becomes the
\* response of the call.
C5_RowErrorsStayInRow ==
    /\ \A i \in DOMAIN raised :
          raised[i] # None =>
              /\ outcomes[i] = "failed"
              /\ EntriesUpTo(i) <= Len(loc.failed_records)
              /\ loc.failed_records[EntriesUpTo(i)].error = raised[i]
    /\ (pc = "rows" => response = NoResponse)
    /\ (pc = "done" /\ BeginOf(upload.endpoint, attached, upload).proceed) =>
          /\ Len(outcomes) = Len(upload.rows)
          /\ response.status = "error" => response.errors = "File save error"

C5_Witness ==
    /\ Succeeded
    /\ Len(raised) = 2
    /\ raised[1] = "DbError"
    /\ outcomes[2] = "created"

\* C6: when an import is run again with the same file, every row the
\* previous run created is a duplicate in this run.
C6_RerunFindsDuplicates ==
    Succeeded => \A i \in prevCreated : outcomes[i] = "duplicate"

\* C7: a bulk import that ends with an error response has created no
\* record.
C7_ErrorCreatesNothing ==
    (pc = "done" /\ response.status = "error") => Tables = before

RequiredCols(e) ==
    CASE e = "mosque" -> {"mosque_name"}
      [] e = "household" -> {"household_name"}
      [] e = "faithful" -> {"full_name", "email"}
      [] e = "imam" -> {"faithful", "mosque_assigned", "date_appointed"}

\* C8: a file whose header lacks a required column makes the call end with
\* an error response before any row is processed: no row has an outcome
\* and no record is created.
C8_MissingColumnFailsCall ==
    (pc \in {"rows", "done"} /\ attached /\ upload.readable
        /\ ~(RequiredCols(upload.endpoint) \subseteq upload.cols)) =>
        /\ pc = "done"
        /\ response.status = "error"
        /\ outcomes = << >>
        /\ Tables = before

\* C9: a bulk import called with no file attached returns an error
\* response with data = null and creates no record.
C9_NoFileIsCallError ==
    (pc = "done" /\ ~attached) =>
        /\ response.status = "error"
        /\ response.http >= 400
        /\ response.data = NullData
        /\ outcomes = << >>
        /\ Tables = before

C9_Witness ==
    /\ pc = "done"
    /\ ~attached
    /\ ncalls = 2
    /\ prevCreated # {}

\* C10: once the file is read and its header accepted, the import answers
\* 200 "success" whatever the rows' outcomes; an error status comes from a
\* call-level failure only: no file, an unreadable file, a rejected
\* header, or the failed-rows report that could not be stored.
C10_RowFailuresStill200 ==
    pc = "done" =>
        IF BeginOf(upload.endpoint, attached, upload).proceed
        THEN \/ response.status = "success" /\ response.http = 200
             \/ /\ response.status = "error"
                /\ response.http = 500
                /\ response.errors = "File save error"
                /\ upload.endpoint \in {"mosque", "household"}
                /\ loc.failed_records # << >>
        ELSE response.status = "error" /\ response.http >= 400

C10_Witness ==
    /\ Succeeded
    /\ response.http = 200
    /\ Len(upload.rows) = 2
    /\ response.data.failed = 2

\* the Faithful Profiles the current import inserted
CreatedProfiles == {i \in DOMAIN profiles : i > Len(before.profiles)}

\* the failure entries of the current import that quote the e-mail of a
\* profile and say that the profile was partially created
PartialCreationNotes(p) ==
    {k \in DOMAIN loc.failed_records :
        /\ loc.failed_records[k].email = p.email
        /\ "partial" \in DOMAIN loc.failed_records[k]}

\* C11: after bulk_upload_faithfuls every Faithful Profile the import
\* inserted has its User, unless a failure entry of the row notes that the
\* profile was partially created.
C11_NoOrphanProfile ==
    (Succeeded /\ upload.endpoint = "faithful") =>
        \A i \in CreatedProfiles :
            \/ Lower(Strip(profiles[i].email)) \in users
            \/ PartialCreationNotes(profiles[i]) # {}

\* C12: when an import returns its summary, a failed-rows report is stored
\* as a File and failed_file_url is set if and only if a row was a
\* duplicate or failed; with every row created the URL is null and no File
\* is stored.
C12_ReportIffNonCreated ==
    [][(pc = "rows" /\ pc' = "done" /\ response'.status = "success"
            /\ upload.endpoint \in {"mosque", "household", "faithful"}) =>
          IF loc.duplicates + loc.failed > 0
          THEN /\ response'.data.failed_file_url # None
               /\ Len(files') = Len(files) + 1
               /\ files'[Len(files')].file_url = response'.data.failed_file_url
          ELSE /\ response'.data.failed_file_url = None
               /\ files' = files]_vars

\* the entries an import reports for its non-created rows, in the order it
\* wrote them, each with the position of the row it is about
ReportedEntries ==
    LET e == upload.endpoint
    IN  IF e \in {"mosque", "household"}
        THEN [k \in DOMAIN loc.failed_records |->
                 [entry |-> loc.failed_records[k],
                  pos |-> Positions(outcomes, {"duplicate", "failed"})[k]]]
        ELSE [k \in DOMAIN loc.failed_records |->
                 [entry |-> loc.failed_records[k],
                  pos |-> Positions(outcomes, {"failed"})[k]]]
             \o [k \in DOMAIN loc.skipped_duplicates |->
                    [entry |-> loc.skipped_duplicates[k],
                     pos |-> Positions(outcomes, {"duplicate"})[k]]]

\* C14: every duplicate or failed entry an import reports carries a row
\* number, which is the 1-based position of the row plus 1 for the header.
C14_RowNumbering ==
    Succeeded =>
        \A k \in DOMAIN ReportedEntries :
            /\ "row" \in DOMAIN ReportedEntries[k].entry
            /\ ReportedEntries[k].entry.row = ReportedEntries[k].pos + 1

\* the number of records of the entity the import creates
EntityCount(t) ==
    CASE upload.endpoint = "mosque" -> Len(t.mosques)
      [] upload.endpoint = "household" -> Len(t.households)
      [] upload.endpoint = "faithful" -> Len(t.profiles)
      [] upload.endpoint = "imam" -> Len(t.imams)

\* C15: inside one import the rows are taken one by one in file order:
\* the k-th iteration is about row k, it inserts at most one record of the
\* entity, and whatever its outcome (a failed insert included) the next
\* iteration is about row k + 1, so no row is attempted twice.
C15_InOrderNoRetry ==
    [][(pc = "rows" /\ outcomes' # outcomes) =>
          /\ Len(outcomes) = idx - 1
          /\ idx <= Len(upload.rows)
          /\ outcomes' = Append(outcomes, outcomes'[idx])
          /\ idx' = idx + 1
          /\ EntityCount(Tables') <= EntityCount(Tables) + 1
          /\ (outcomes'[idx] = "created") = (EntityCount(Tables') = EntityCount(Tables) + 1
                                             /\ raised'[idx] = None)]_vars

C15_Witness ==
    /\ pc = "rows"
    /\ upload.endpoint = "household"
    /\ idx = 2
    /\ raised = << "DbError" >>
    /\ households = << >>
    /\ household_ids = NoIds

\* the sheet of the scenario: "Central Mosque", "Central Mosque", an empty cell
CentralMosqueSheet ==
    << [mosque_name |-> CentralMosque], [mosque_name |-> CentralMosque],
       [mosque_name |-> Empty] >>

\* C13: the first import of the sheet "Central Mosque", "Central Mosque",
\* <empty> (one column, mosque_name) into an empty Mosque table, with the
\* storage rejecting nothing, reports total 3, created 1, duplicates 1,
\* failed 1: row 1 created, row 2 a duplicate, row 3 failed.
C13_CentralMosqueScenario ==
    (/\ Succeeded
     /\ upload.endpoint = "mosque"
     /\ upload.cols = {"mosque_name"}
     /\ upload.sheet = CentralMosqueSheet
     /\ before.mosques = << >>
     /\ \A i \in DOMAIN raised : raised[i] # "DbError") =>
        /\ response.data.total = 3
        /\ response.data.created = 1
        /\ response.data.duplicates = 1
        /\ response.data.failed = 1
        /\ outcomes = << "created", "duplicate", "failed" >>

(***************************************************************************)
(* Properties of the response bodies and of the Imam endpoints.            *)
(***************************************************************************)
\* C16: a response whose status is "error" carries a code equal to the HTTP
\* status it is sent with and an errors object with a description; a
\* response sent with an HTTP status below 400 has status "success".
C16_ErrorBodyShape ==
    /\ response.status = "error" =>
          /\ response.code = response.http
          /\ response.errors # None
    /\ (response.http > 0 /\ response.http < 400) => response.status = "success"

\* C18: a reassign_imam(name, new_mosque) that answers "success" leaves the
\* Imam listed by get_imams_by_mosque(new_mosque), and appends one
\* assignment log whose old_mosque is the mosque the Imam was assigned to
\* before the call and whose new_mosque is the requested one.
C18_ReassignMovesImam ==
    [][(ncalls' = ncalls + 1 /\ call'.op = "reassign_imam"
            /\ response'.status = "success") =>
          LET i == Find(imams, call'.name)
              listed == GetImamsByMosqueBody(imams', call'.new_mosque).data.names
          IN  /\ i # 0
              /\ \E k \in DOMAIN listed : listed[k] = call'.name
              /\ imams'[Find(imams', call'.name)].mosque_assigned = call'.new_mosque
              /\ Len(assignment_logs') = Len(assignment_logs) + 1
              /\ assignment_logs'[Len(assignment_logs')].old_mosque
                    = imams[i].mosque_assigned
              /\ assignment_logs'[Len(assignment_logs')].new_mosque
                    = call'.new_mosque]_vars

\* the upload of the last call is one the allowlist and the size limit admit
Admitted(d) ==
    /\ d.shape \in {"data", "scheme", "bare"}
    /\ d.mime \in AllowedMimeTypes
    /\ d.decodable
    /\ d.size <= MaxFileSize

\* C17: a call of a save_base64_file helper writes a file or registers a
\* File only if the declared MIME type is image/png, image/jpeg or
\* application/pdf and the decoded size is at most 5 MiB; for any other
\* upload the helper raises and leaves the disk and the File table as they
\* were.
C17_UploadAllowlist ==
    [][(ncalls' = ncalls + 1 /\ call'.op = "save_base64_file") =>
          /\ (disk' # disk \/ files' # files) => Admitted(call'.data_url)
          /\ ~Admitted(call'.data_url) =>
                /\ call'.raised # None
                /\ disk' = disk
                /\ files' = files]_vars

(***************************************************************************)
(* Properties of send_otp and verify_otp.                                  *)
(***************************************************************************)
\* the step serves a request of the endpoint op
Serves(op) == ncalls' = ncalls + 1 /\ call'.op = op

\* a send_otp for the e-mail has passed the cooldown check, t seconds ago
\* at most
IssuedWithin(email, t) ==
    issued[email].otp # None /\ clock - issued[email].at < t

\* C19: a send_otp made less than 60 seconds after a send_otp for the same
\* e-mail passed the cooldown check answers "OTP already sent", leaves the
\* cache (the OTP, its expiry, the cooldown entry) as it was and sends no
\* e-mail.
C19_CooldownRejects ==
    [][(Serves("send_otp") /\ IssuedWithin(call'.email, CooldownSec)) =>
          /\ response'.status = "error"
          /\ response'.message = AlreadySent
          /\ cache' = cache
          /\ outbox' = outbox
          /\ issued' = issued]_vars

C19_Witness ==
    /\ call.op = "send_otp"
    /\ response.message = AlreadySent
    /\ clock - issued[call.email].at = CooldownSec - 1
    /\ issued[call.email].otp # call.otp

\* C20: verify_otp answers success only for the code (spaces around it
\* trimmed) that the last send_otp which passed the cooldown check stored
\* for the e-mail, and only less than 300 seconds after it was stored; when
\* no code was issued for the e-mail, or 300 seconds have passed, it
\* answers "OTP expired or not found" whatever otp is.  issued[email] is
\* what the last send_otp that passed the cooldown check drew and when; the
\* requests start after a first send_otp for FirstEmail, so that a
\* verify_otp may follow two such send_otp with different codes, while the
\* other e-mail has no code issued.
C20_VerifyOnlyFreshCode ==
    [][Serves("verify_otp") =>
          /\ response'.status = "success" =>
                /\ IssuedWithin(call'.email, OtpTtlSec)
                /\ Strip(call'.otp) = issued[call'.email].otp
          /\ ~IssuedWithin(call'.email, OtpTtlSec) =>
                /\ response'.status = "error"
                /\ response'.message = ExpiredOrNotFound]_vars

\* the code of a second send_otp for FirstEmail, passed with spaces around
\* it 299 seconds after it was stored, is accepted: the first send_otp had
\* drawn FirstCode, another code
C20_Witness ==
    /\ call.op = "verify_otp"
    /\ call.email = FirstEmail
    /\ response.status = "success"
    /\ call.otp = " 100000 "
    /\ Strip(call.otp) # FirstCode
    /\ issued[FirstEmail].otp = Strip(call.otp)
    /\ issued[FirstEmail].at >= CooldownSec
    /\ clock - issued[FirstEmail].at = OtpTtlSec - 1

(***************************************************************************)
(* C21: in sequential execution an OTP is single-use: once a verify_otp    *)
(* has answered success for an e-mail, every verify_otp for that e-mail    *)
(* answers an error until a send_otp for it passes the cooldown check;     *)
(* and a verify_otp answering "Invalid OTP." leaves the cache as it was,   *)
(* so that verify_otp with the stored code would answer success.           *)
(***************************************************************************)
C21_OtpSingleUse ==
    [][Serves("verify_otp") =>
          /\ call'.email \in verified => response'.status = "error"
          /\ response'.message = "Invalid OTP." =>
                /\ cache' = cache
                /\ VerifyOtpBody(call'.email, issued[call'.email].otp, cache',
                                 clock').response.status = "success"]_vars

\* the code that was accepted is presented again, in time, and is refused
C21_Witness ==
    /\ call.op = "verify_otp"
    /\ call.email \in verified
    /\ Strip(call.otp) = issued[call.email].otp
    /\ clock - issued[call.email].at < OtpTtlSec
    /\ response.status = "error"

(***************************************************************************)
(* C23: a send_otp that passes the cooldown check and whose mail fails     *)
(* answers status "error", sends nothing, and leaves the generated OTP and *)
(* the cooldown entry in the cache: a send_otp at once is refused with     *)
(* "OTP already sent" and a verify_otp with the generated code would       *)
(* answer success.                                                         *)
(***************************************************************************)
C23_MailFailureKeepsOtp ==
    [][(Serves("send_otp") /\ response'.message = "Error sending OTP") =>
          /\ response'.status = "error"
          /\ outbox' = outbox
          /\ GetValue(cache', OtpKey(call'.email), clock') = call'.otp
          /\ Truthy(GetValue(cache', CooldownKey(call'.email), clock'))
          /\ \A otp \in Codes :
                SendOtpBody(call'.email, otp, TRUE, cache', clock', outbox',
                            issued').response.message = AlreadySent
          /\ VerifyOtpBody(call'.email, call'.otp, cache',
                           clock').response.status = "success"]_vars

\* a code whose mail never left is verified
C23_Witness ==
    /\ call.op = "verify_otp"
    /\ response.status = "success"
    /\ outbox = << >>
    /\ clock > 0

(***************************************************************************)
(* C22: of the verify_otp requests served at once for the e-mail of the    *)
(* one OTP issued, at most one answers success.                            *)
(***************************************************************************)
C22_OneConcurrentSuccess ==
    \A e \in Emails :
        Cardinality({w \in DOMAIN procs :
                        /\ procs[w].pc = "done"
                        /\ procs[w].email = e
                        /\ procs[w].response.status = "success"}) <= 1

(***************************************************************************)
(* Properties of register_faithful and update_faithful.                    *)
(***************************************************************************)
\* C24: whenever register_faithful answers an error, the persisted
\* Faithful Profile and User records are those of before the call.
C24_RegisterAllOrNothing ==
    [][(Serves("register_faithful") /\ response'.status = "error") =>
          /\ profiles' = profiles
          /\ users' = users]_vars

\* C25: an update_faithful that answers success leaves every field of the
\* profile that its payload does not name as it was.
C25_UpdateFrame ==
    [][(Serves("update_faithful") /\ response'.status = "success") =>
          \A i \in DOMAIN profiles :
              \A f \in ProfileFields \ DOMAIN call'.payload :
                  profiles'[i][f] = profiles[i][f]]_vars

(***************************************************************************)
(* C26: from empty storage, after any sequence of register_mosque,         *)
(* update_mosque and bulk_register_mosques calls, no two Mosque records    *)
(* have the same mosque_name, the same non-empty contact_email or the same *)
(* non-empty contact_phone.                                                *)
(***************************************************************************)
C26_MosqueKeysUnique ==
    \A i, j \in DOMAIN mosques :
        i # j =>
            /\ mosques[i].mosque_name # mosques[j].mosque_name
            /\ Truthy(mosques[i].contact_email) =>
                   mosques[i].contact_email # mosques[j].contact_email
            /\ Truthy(mosques[i].contact_phone) =>
                   mosques[i].contact_phone # mosques[j].contact_phone

(***************************************************************************)
(* C27: when two bulk_register_mosques calls, or two                       *)
(* bulk_register_households calls, run at once from empty storage, at     *)
(* most one record is created for a name: no two Mosques share a          *)
(* mosque_name and no two Households share a household_name.               *)
(***************************************************************************)
C27_ConcurrentImportsOneRecord ==
    /\ \A i, j \in DOMAIN mosques :
          i # j => mosques[i].mosque_name # mosques[j].mosque_name
    /\ \A i, j \in DOMAIN households :
          i # j => households[i].household_name # households[j].household_name

====
